---- MODULE Spec2Model ----
(***************************************************************************)
(* Response capture of the Gemini CLI chatbot: the in-page completion      *)
(* poller and host-side typing queue of streamResponse, the host-side      *)
(* polling loop and extraction selector of waitForResponseAndRender, and   *)
(* the text functions they call (normalizeMarkdown, looksLikeMarkdown),    *)
(* the line handler of the chat loop, and the DOM walker domToMarkdown.    *)
(*                                                                         *)
(* A text is a sequence of one-character strings.                          *)
(***************************************************************************)
EXTENDS Integers, Sequences, FiniteSets, TLC

(* ------------------------------------------------------------------ *)
(* Characters and elementary string functions of JavaScript            *)
(* ------------------------------------------------------------------ *)

\* The characters JavaScript's \s and String.prototype.trim treat as white space
\* (those that occur in the model's texts).
WS == {" ", "\n", "\t"}

Digits == {"0", "1", "2", "3", "4", "5", "6", "7", "8", "9"}

\* The backtick character (the lexer of TLA+ does not accept it in a string).
Backtick == "BT"

\* Every character a text of the model can hold.
Chars == WS \cup Digits \cup
         {"a", "b", "c", Backtick, "#", ">", "-", "*", "+", ".", "|", ":", "_",
          "[", "]", "(", ")", "\\"}

Min(a, b) == IF a < b THEN a ELSE b

\* String.prototype.trim
RECURSIVE TrimLeft(_)
TrimLeft(s) == IF s # <<>> /\ Head(s) \in WS THEN TrimLeft(Tail(s)) ELSE s

RECURSIVE TrimRight(_)
TrimRight(s) ==
    IF s # <<>> /\ s[Len(s)] \in WS THEN TrimRight(SubSeq(s, 1, Len(s) - 1)) ELSE s

Trim(s) == TrimRight(TrimLeft(s))

\* String.prototype.startsWith / endsWith
StartsWith(s, p) == Len(s) >= Len(p) /\ SubSeq(s, 1, Len(p)) = p

EndsWith(s, p) == Len(s) >= Len(p) /\ SubSeq(s, Len(s) - Len(p) + 1, Len(s)) = p

\* String.prototype.substring(from) with a 0-based index
Substring(s, from) == SubSeq(s, from + 1, Len(s))

\* String.prototype.split('\n')
RECURSIVE SplitLines(_)
SplitLines(s) ==
    IF \A i \in 1..Len(s) : s[i] # "\n" THEN <<s>>
    ELSE LET k == CHOOSE i \in 1..Len(s) : s[i] = "\n" /\ \A j \in 1..(i - 1) : s[j] # "\n"
         IN  <<SubSeq(s, 1, k - 1)>> \o SplitLines(SubSeq(s, k + 1, Len(s)))

\* Array.prototype.join('\n')
RECURSIVE JoinLines(_)
JoinLines(ls) ==
    IF ls = <<>> THEN <<>>
    ELSE IF Len(ls) = 1 THEN ls[1]
    ELSE ls[1] \o <<"\n">> \o JoinLines(Tail(ls))

(* ------------------------------------------------------------------ *)
(* Regular expressions: a pattern is a sequence of items, each a       *)
(* character class with a repetition range {min,max}.                  *)
(* ------------------------------------------------------------------ *)

\* max < 0 stands for a quantifier without upper limit (*, +, {n,}).
Item(cls, min, max) == [cls |-> cls, min |-> min, max |-> max]

One(c) == Item({c}, 1, 1)

Star(cls) == Item(cls, 0, -1)

Plus(cls) == Item(cls, 1, -1)

\* The positions at which items k.. of the pattern can end when started at
\* position p of s (p characters already consumed).
RECURSIVE EndsFrom(_, _, _, _)
EndsFrom(items, k, s, p) ==
    IF k > Len(items) THEN {p}
    ELSE LET it   == items[k]
             most == IF it.max < 0 THEN Len(s) - p ELSE Min(it.max, Len(s) - p)
             runs == {n \in it.min..most :
                         \A j \in 1..n : s[p + j] \in it.cls}
         IN  UNION {EndsFrom(items, k + 1, s, p + n) : n \in runs}

\* /^items/
MatchesPrefix(items, s) == EndsFrom(items, 1, s, 0) # {}

\* /^items$/ on a text without line breaks
MatchesWhole(items, s) == Len(s) \in EndsFrom(items, 1, s, 0)

\* /items/ anywhere in s
MatchesAnywhere(items, s) == \E p \in 0..Len(s) : EndsFrom(items, 1, s, p) # {}

\* /^items/m : at the start of s or right after a line break
MatchesAtLineStart(items, s) ==
    \E p \in 0..Len(s) : (p = 0 \/ s[p] = "\n") /\ EndsFrom(items, 1, s, p) # {}

(* ------------------------------------------------------------------ *)
(* normalizeMarkdown and looksLikeMarkdown                             *)
(* ------------------------------------------------------------------ *)

\* /^\s*\|?[-:\s]+\|[-:\s|]*$/
isTableSepLine(value) ==
    MatchesWhole(<<Star(WS), Item({"|"}, 0, 1), Plus({"-", ":"} \cup WS), One("|"),
                   Star({"-", ":", "|"} \cup WS)>>, value)

\* The pipes of value that no backslash precedes.
countPipes(value) ==
    Cardinality({i \in 1..Len(value) :
                    value[i] = "|" /\ ~(i > 1 /\ value[i - 1] = "\\")})

\* /^(#{1,6}\s|>|\s*[-*+]\s|\s*\d+\.\s|---$|___$|\*\*\*$|\s*•\s)/
\* (the bullet glyph is not a character of the model's texts)
isBlockStart(line) ==
    \/ MatchesPrefix(<<Item({"#"}, 1, 6), Item(WS, 1, 1)>>, line)
    \/ MatchesPrefix(<<One(">")>>, line)
    \/ MatchesPrefix(<<Star(WS), Item({"-", "*", "+"}, 1, 1), Item(WS, 1, 1)>>, line)
    \/ MatchesPrefix(<<Star(WS), Plus(Digits), One("."), Item(WS, 1, 1)>>, line)
    \/ line = <<"-", "-", "-">>
    \/ line = <<"_", "_", "_">>
    \/ line = <<"*", "*", "*">>

\* Mutant of togglesFence: the line is tested as it is, not trimmed.
togglesFenceUntrimmed(line) == StartsWith(line, <<Backtick, Backtick, Backtick>>)

\* trimmed.startsWith('```')
togglesFence(line) == StartsWith(Trim(line), <<Backtick, Backtick, Backtick>>)

\* One iteration of the scan of normalizeMarkdown: line i of lines in scan state
\* st = [out, inFence, inTable, tablePipeCount].
normalizeLine(lines, i, st) ==
    LET line      == lines[i]
        trimmed   == Trim(line)
        next      == IF i + 1 <= Len(lines) THEN lines[i + 1] ELSE <<>>
        pipeCount == countPipes(line)
        out       == st.out
        n         == Len(out)
        prev      == IF n > 0 THEN out[n] ELSE <<>>
        push(l)   == Append(out, l)
        join(l)   == [out EXCEPT ![n] = out[n] \o <<" ">> \o l]
    IN  IF togglesFence(line)
          THEN [st EXCEPT !.inFence = ~st.inFence, !.out = push(line)]
        ELSE IF st.inFence
          THEN [st EXCEPT !.out = push(line)]
        ELSE IF ~st.inTable /\ pipeCount >= 2 /\ isTableSepLine(next)
          THEN [st EXCEPT !.inTable = TRUE, !.tablePipeCount = pipeCount,
                          !.out = push(line)]
        ELSE IF st.inTable
          THEN IF trimmed = <<>>
                 THEN [st EXCEPT !.out = push(<<>>), !.inTable = FALSE,
                                 !.tablePipeCount = 0]
               ELSE IF isTableSepLine(line) \/ pipeCount >= st.tablePipeCount
                 THEN [st EXCEPT !.out = push(line)]
               ELSE IF n > 0
                 THEN [st EXCEPT !.out = join(trimmed)]
               ELSE [st EXCEPT !.out = push(trimmed)]
        ELSE IF trimmed = <<>>
          THEN [st EXCEPT !.out = push(<<>>)]
        ELSE IF isBlockStart(line)
          THEN [st EXCEPT !.out = push(line)]
        ELSE IF n > 0 /\ prev # <<>> /\ ~isBlockStart(prev)
                /\ ~EndsWith(Trim(prev), <<" ", " ">>)
          THEN [st EXCEPT !.out = join(trimmed)]
        ELSE [st EXCEPT !.out = push(trimmed)]

\* The scan state before the first line.
normalizeStart ==
    [out |-> <<>>, inFence |-> FALSE, inTable |-> FALSE, tablePipeCount |-> 0]

\* The scan state after lines 1..i.
RECURSIVE normalizeScan(_, _)
normalizeScan(lines, i) ==
    IF i = 0 THEN normalizeStart
    ELSE normalizeLine(lines, i, normalizeScan(lines, i - 1))

normalizeMarkdown(md) ==
    LET lines == SplitLines(md)
    IN  JoinLines(normalizeScan(lines, Len(lines)).out)

\* /```|^\s{0,3}#{1,6}\s|\n\s*[-*+]\s|\n\s*\d+\.\s|\|\s*---|\[[^\]]+\]\([^)]+\)|`[^`]+`/m
looksLikeMarkdown(text) ==
    /\ text # <<>>
    /\ \/ MatchesAnywhere(<<Item({Backtick}, 3, 3)>>, text)
       \/ MatchesAtLineStart(<<Item(WS, 0, 3), Item({"#"}, 1, 6), Item(WS, 1, 1)>>, text)
       \/ MatchesAnywhere(<<One("\n"), Star(WS), Item({"-", "*", "+"}, 1, 1),
                            Item(WS, 1, 1)>>, text)
       \/ MatchesAnywhere(<<One("\n"), Star(WS), Plus(Digits), One("."),
                            Item(WS, 1, 1)>>, text)
       \/ MatchesAnywhere(<<One("|"), Star(WS), Item({"-"}, 3, 3)>>, text)
       \/ MatchesAnywhere(<<One("["), Plus(Chars \ {"]"}), One("]"), One("("),
                            Plus(Chars \ {")"}), One(")")>>, text)
       \/ MatchesAnywhere(<<One(Backtick), Plus(Chars \ {Backtick}), One(Backtick)>>, text)

(* ------------------------------------------------------------------ *)
(* domToMarkdown (the DOM walker of fetchDomMarkdown)                   *)
(*                                                                     *)
(* A node is a record: tag = the lower-case tag name of an element,    *)
(* "#text" for a text node (nodeType 3), "#comment" for any other      *)
(* node; text = the data of a text node; href = the href attribute of  *)
(* an element; kids = childNodes.  The tag "code-block" stands for an  *)
(* element with that tag name or class, "decoration" for an element of *)
(* class code-block-decoration.                                        *)
(* ------------------------------------------------------------------ *)

TextNode(t) == [tag |-> "#text", text |-> t, href |-> <<>>, kids |-> <<>>]

El(tag, kids) == [tag |-> tag, text |-> <<>>, href |-> <<>>, kids |-> kids]

\* null where a node is expected (no match of querySelector)
NullNode == El("#null", <<>>)

\* String.prototype.repeat
Repeat(t, n) == [i \in 1..(n * Len(t)) |-> t[((i - 1) % Len(t)) + 1]]

\* The concatenation of the texts of a sequence
RECURSIVE Concat(_)
Concat(ts) == IF ts = <<>> THEN <<>> ELSE Head(ts) \o Concat(Tail(ts))

\* Array.prototype.join(sep)
RECURSIVE Join(_, _)
Join(ts, sep) ==
    IF ts = <<>> THEN <<>>
    ELSE IF Len(ts) = 1 THEN ts[1]
    ELSE ts[1] \o sep \o Join(Tail(ts), sep)

Max(a, b) == IF a > b THEN a ELSE b

\* String.prototype.toLowerCase (the upper-case letters of the model's texts)
toLowerCase(t) == [i \in 1..Len(t) |-> IF t[i] = "A" THEN "a" ELSE IF t[i] = "B" THEN "b" ELSE t[i]]

\* Template literal of a number: its decimal digits
RECURSIVE numberToString(_)
numberToString(n) ==
    LET digit(d) == CHOOSE c \in Digits : c = ToString(d)
    IN  IF n < 10 THEN <<digit(n)>> ELSE numberToString(n \div 10) \o <<digit(n % 10)>>

\* Node.textContent
RECURSIVE textContent(_)
textContent(node) ==
    IF node.tag = "#text" THEN node.text
    ELSE IF node.tag = "#comment" THEN <<>>
    ELSE Concat([k \in 1..Len(node.kids) |-> textContent(node.kids[k])])

\* The elements below el in document order (what querySelectorAll scans).
RECURSIVE descendants(_)
descendants(el) ==
    Concat([k \in 1..Len(el.kids) |->
               IF el.kids[k].tag \in {"#text", "#comment"} THEN <<>>
               ELSE <<el.kids[k]>> \o descendants(el.kids[k])])

\* querySelectorAll of a selector list that matches the elements with a tag in tags
querySelectorAll(el, tags) == SelectSeq(descendants(el), LAMBDA d : d.tag \in tags)

\* querySelector: the first match in document order, or null
querySelector(el, tags) ==
    IF querySelectorAll(el, tags) = <<>> THEN NullNode ELSE Head(querySelectorAll(el, tags))

\* md.match(/\n*$/)[0].length
RECURSIVE trailingNewlines(_)
trailingNewlines(md) ==
    IF md # <<>> /\ md[Len(md)] = "\n" THEN 1 + trailingNewlines(SubSeq(md, 1, Len(md) - 1))
    ELSE 0

ensureNewlines(md, count) ==
    IF trailingNewlines(md) < count
      THEN md \o Repeat(<<"\n">>, count - trailingNewlines(md))
      ELSE md

\* The longest run of backticks in text: max over text.match(/`+/g)
longestBacktickRun(text) ==
    LET runs == {n \in 1..Len(text) :
                    \E p \in 1..(Len(text) - n + 1) :
                        \A j \in 0..(n - 1) : text[p + j] = Backtick}
    IN  IF runs = {} THEN 0 ELSE CHOOSE n \in runs : \A m \in runs : m <= n

\* Mutant of fenceFor: as long as the longest run, not one longer.
fenceForLongestRun(text) == Repeat(<<Backtick>>, Max(3, longestBacktickRun(text)))

fenceFor(text) == Repeat(<<Backtick>>, Max(3, longestBacktickRun(text) + 1))

inlineFence(text) == Repeat(<<Backtick>>, Max(1, longestBacktickRun(text) + 1))

\* text.replace(/\s+/g, ' ')
RECURSIVE collapseWhitespace(_)
collapseWhitespace(t) ==
    IF t = <<>> THEN <<>>
    ELSE IF Head(t) \in WS
      THEN <<" ">> \o collapseWhitespace(TrimLeft(t))
      ELSE <<Head(t)>> \o collapseWhitespace(Tail(t))

\* text.replace(/\|/g, '\\|')
escapePipes(t) == Concat([i \in 1..Len(t) |-> IF t[i] = "|" THEN <<"\\", "|">> ELSE <<t[i]>>])

escapeTableCell(text) == Trim(escapePipes(collapseWhitespace(text)))

\* The cells of a row: its children with a tag in tags, as table cell texts
rowCells(row, tags) ==
    LET cells == SelectSeq(row.kids, LAMBDA c : c.tag \in tags)
    IN  [i \in 1..Len(cells) |-> escapeTableCell(textContent(cells[i]))]

\* Mutant of pad: the row is left as it is.
padKeepsLength(arr, colCount) == arr

\* pad of extractTable
pad(arr, colCount) == arr \o [i \in 1..(colCount - Len(arr)) |-> <<>>]

\* `| ${cells.join(' | ')} |\n`
tableLine(cells) == <<"|", " ">> \o Join(cells, <<" ", "|", " ">>) \o <<" ", "|", "\n">>

\* extractTable: the text it appends (nothing when there is no header)
extractTable(table) ==
    LET thead      == querySelector(table, {"thead"})
        headerRow  == IF thead = NullNode THEN NullNode ELSE querySelector(thead, {"tr"})
        fromHead   == IF headerRow = NullNode THEN <<>> ELSE rowCells(headerRow, {"th"})
        bodyRows   == querySelectorAll(table, {"tr"})
        allRows    == SelectSeq([i \in 1..Len(bodyRows) |-> rowCells(bodyRows[i], {"td", "th"})],
                                LAMBDA cells : cells # <<>>)
        shift      == fromHead = <<>> /\ allRows # <<>>
        headerCells == IF shift THEN Head(allRows) ELSE fromHead
        rows       == IF shift THEN Tail(allRows) ELSE allRows
        widths     == {Len(headerCells)} \cup {Len(rows[i]) : i \in 1..Len(rows)}
        colCount   == CHOOSE n \in widths : \A m \in widths : m <= n
        header     == pad(headerCells, colCount)
        sep        == [i \in 1..Len(header) |-> <<"-", "-", "-">>]
    IN  IF headerCells = <<>> THEN <<>>
        ELSE <<"\n", "\n">> \o tableLine(header) \o tableLine(sep)
             \o Concat([i \in 1..Len(rows) |-> tableLine(pad(rows[i], colCount))])
             \o <<"\n">>

\* codeText.replace(/\n$/, '')
stripFinalNewline(t) ==
    IF t # <<>> /\ t[Len(t)] = "\n" THEN SubSeq(t, 1, Len(t) - 1) ELSE t

\* extractCodeBlock: the text it appends
extractCodeBlock(block) ==
    LET langEl   == querySelector(block, {"decoration"})
        lang     == IF langEl = NullNode THEN <<>> ELSE toLowerCase(Trim(textContent(langEl)))
        codeEl   == querySelector(block, {"code", "pre"})
        codeText == stripFinalNewline(IF codeEl = NullNode THEN <<>> ELSE textContent(codeEl))
        fence    == fenceFor(codeText)
    IN  <<"\n", "\n">> \o fence \o (IF lang # <<>> THEN <<" ">> \o lang ELSE <<>>)
        \o <<"\n">> \o codeText \o <<"\n">> \o fence \o <<"\n", "\n">>

\* Mutant of countItem: an item counts in every open list.
countItemInEveryList(listStack) ==
    [i \in 1..Len(listStack) |-> [listStack[i] EXCEPT !.index = @ + 1]]

\* ++top.index when the innermost open list is ordered
countItem(listStack) ==
    IF listStack # <<>> /\ listStack[Len(listStack)].type = "ol"
      THEN [listStack EXCEPT ![Len(listStack)].index = @ + 1]
      ELSE listStack

\* The prefix a heading tag appends
headingPrefix(tag) ==
    Repeat(<<"#">>, CHOOSE n \in 1..6 : tag = "h" \o ToString(n)) \o <<" ">>

\* render(child, inListItem) in walker state st = [md, listStack]
RECURSIVE render(_, _, _)
RECURSIVE renderFrom(_, _, _, _)

\* renderChildren: childNodes k.. of el (forEach calls render for child k and,
\* once it has returned, goes on with child k + 1; the test on the stack makes
\* TLC compute the state after child k before it goes on)
renderFrom(el, k, inListItem, st) ==
    IF k > Len(el.kids) THEN st
    ELSE LET next == render(el.kids[k], inListItem, st)
         IN  IF Len(next.listStack) >= 0
               THEN renderFrom(el, k + 1, inListItem, next)
               ELSE next

renderChildren(el, inListItem, st) == renderFrom(el, 1, inListItem, st)

render(child, inListItem, st) ==
    LET tag        == child.tag
        append(t)  == [st EXCEPT !.md = @ \o t]
        ensured(n) == [st EXCEPT !.md = ensureNewlines(@, n)]
        closed(r, n) == [r EXCEPT !.md = ensureNewlines(@, n)]
    IN  IF tag = "#text" THEN append(child.text)
        ELSE IF tag = "#comment" THEN st
        ELSE IF tag \in {"code-block", "pre"} THEN append(extractCodeBlock(child))
        ELSE IF tag = "table" THEN append(extractTable(child))
        ELSE IF tag = "br" THEN append(<<"\n">>)
        ELSE IF tag = "hr"
          THEN closed([st EXCEPT !.md = ensureNewlines(@, 2) \o <<"-", "-", "-">>], 2)
        ELSE IF tag = "p"
          THEN IF inListItem THEN renderChildren(child, TRUE, st)
               ELSE closed(renderChildren(child, FALSE, ensured(2)), 2)
        ELSE IF tag \in {"h1", "h2", "h3", "h4", "h5", "h6"}
          THEN closed(renderChildren(child, FALSE,
                         [st EXCEPT !.md = ensureNewlines(@, 2) \o headingPrefix(tag)]), 2)
        ELSE IF tag \in {"ul", "ol"}
          THEN LET pushed == [md |-> ensureNewlines(st.md, 2),
                              listStack |-> Append(st.listStack, [type |-> tag, index |-> 0])]
                   done   == renderChildren(child, FALSE, pushed)
               IN  [md |-> ensureNewlines(done.md, 2),
                    listStack |-> SubSeq(done.listStack, 1, Len(done.listStack) - 1)]
        ELSE IF tag = "li"
          THEN LET n      == Len(st.listStack)
                   depth  == Max(0, n - 1)
                   indent == Repeat(<<" ", " ">>, depth)
                   isOl   == n > 0 /\ st.listStack[n].type = "ol"
                   stack  == countItem(st.listStack)
                   marker == IF isOl THEN numberToString(stack[n].index) \o <<".">>
                             ELSE <<"-">>
               IN  renderChildren(child, TRUE,
                      [md |-> ensureNewlines(st.md, 1) \o indent \o marker \o <<" ">>,
                       listStack |-> stack])
        ELSE IF tag = "blockquote"
          THEN LET original == ensureNewlines(st.md, 2)
                   inner    == renderChildren(child, FALSE,
                                  [md |-> <<>>, listStack |-> st.listStack])
                   content  == SplitLines(Trim(inner.md))
                   quoted   == Concat([i \in 1..Len(content) |->
                                          <<">", " ">> \o content[i] \o <<"\n">>])
               IN  [md |-> ensureNewlines(original \o quoted, 2),
                    listStack |-> inner.listStack]
        ELSE IF tag \in {"strong", "b"}
          THEN LET r == renderChildren(child, inListItem, append(<<"*", "*">>))
               IN  [r EXCEPT !.md = @ \o <<"*", "*">>]
        ELSE IF tag \in {"em", "i"}
          THEN LET r == renderChildren(child, inListItem, append(<<"_">>))
               IN  [r EXCEPT !.md = @ \o <<"_">>]
        ELSE IF tag = "code"
          THEN append(inlineFence(textContent(child)) \o textContent(child)
                      \o inlineFence(textContent(child)))
        ELSE IF tag = "a"
          THEN LET r == renderChildren(child, inListItem, append(<<"[">>))
               IN  [r EXCEPT !.md = @ \o <<"]", "(">> \o child.href \o <<")">>]
        ELSE renderChildren(child, inListItem, st)

\* domToMarkdown(node): the walk of the children of node, trimmed
domToMarkdown(node) ==
    IF node = NullNode THEN <<>>
    ELSE Trim(renderChildren(node, FALSE, [md |-> <<>>, listStack |-> <<>>]).md)

(* ------------------------------------------------------------------ *)
(* Bounds and program constants                                        *)
(* ------------------------------------------------------------------ *)

\* Longest inner text of the reply under observation.
MaxLen == 2

\* Most replies already in the document when the prompt is sent.
MaxPrior == 1

\* Ceiling of the in-page poller of streamResponse (ms).
STREAM_CEILING_MS == 120000

\* Initial-appearance timeout of the in-page poller of streamResponse (ms).
APPEAR_TIMEOUT_MS == 30000

\* Ceiling of the polling loop of waitForResponseAndRender (ms).
WAIT_CEILING_MS == 300000

\* stableCount > 5 ends the in-page poller.
STREAM_STABLE_OVER == 5

\* stableCount >= 6 ends the loop of waitForResponseAndRender.
WAIT_STABLE_MIN == 6

\* The text of a reply as it streams in: a word, a blank, a word, ...
streamChar(i) == IF i % 2 = 1 THEN "a" ELSE " "

\* The inner texts the reply under observation can show: the prefixes of the
\* streaming text up to MaxLen characters, and a text of white space only.
Texts == {[i \in 1..n |-> streamChar(i)] : n \in 0..MaxLen} \cup {<<" ">>}

\* null and undefined of JavaScript, where a text is expected.
Null == <<"null">>

\* What the page's own copy action can put on the clipboard: nothing, white
\* space only, plain text, text with a Markdown heading.
CopyTexts == {<<>>, <<" ">>, <<"b">>, <<"#", " ", "b">>}

\* !x || !x.trim()
IsBlank(x) == x = Null \/ Trim(x) = <<>>

(* ------------------------------------------------------------------ *)
(* The document                                                        *)
(* ------------------------------------------------------------------ *)

\* An element matching RESPONSE_SELECTOR: scoped = it lies inside an element
\* matching RESPONSE_CONTAINER_SELECTOR; marker = that container holds a
\* regenerate-button or thumb-up-button; copy = that container holds a copy
\* button; text = its innerText.
Element(scoped, text, marker, copy) ==
    [scoped |-> scoped, text |-> text, marker |-> marker, copy |-> copy]

\* A reply of an earlier turn: finished, with its controls when it has a container.
PriorReplies == {Element(TRUE, <<"a">>, TRUE, TRUE), Element(FALSE, <<"a">>, FALSE, FALSE)}

PriorDocs == UNION {[1..n -> PriorReplies] : n \in 0..MaxPrior}

\* document.querySelectorAll(responseSelector), as positions in the document
allCandidates(d) == [i \in 1..Len(d) |-> i]

scopedCandidates(d) == SelectSeq(allCandidates(d), LAMBDA i : d[i].scoped)

\* The scoped candidates when there are any, else all of them.
candidates(d) ==
    IF Len(scopedCandidates(d)) > 0 THEN scopedCandidates(d) ELSE allCandidates(d)

\* candidates[candidates.length - 1]; 0 stands for undefined
latestCandidate(d) ==
    IF Len(candidates(d)) = 0 THEN 0 ELSE candidates(d)[Len(candidates(d))]

\* sendPromptToGemini: the count of message bubbles before sending
countCandidates(d) == Len(candidates(d))

\* domToMarkdown of a reply whose content is one text node, with the fall
\* back to innerText when the walk yields nothing.
finalMarkdownOf(el) ==
    LET md == Trim(el.text)
    IN  IF md = <<>> THEN el.text ELSE md

\* fetchDomMarkdown without a page error
fetchDomMarkdown(d) ==
    IF latestCandidate(d) = 0 THEN <<>> ELSE finalMarkdownOf(d[latestCandidate(d)])

\* What fetchCopyMarkdown can return: null without a copy button in the
\* latest candidate's container, on a page error, and when nothing was
\* captured within 50 ms; else the captured text.
fetchCopyMarkdown(d) ==
    IF latestCandidate(d) # 0 /\ d[latestCandidate(d)].scoped /\ d[latestCandidate(d)].copy
      THEN {Null} \cup CopyTexts
      ELSE {Null}

(* ------------------------------------------------------------------ *)
(* State                                                               *)
(* ------------------------------------------------------------------ *)

VARIABLES
    entry,          \* the entry point that runs: "chatbot.js", "run-chatbot.sh", "part_000"
    fn,             \* the function that waits for the reply
    doc,            \* the elements of the page matching RESPONSE_SELECTOR, in document order
    initialCount,   \* the baseline count taken by sendPromptToGemini
    elapsed,        \* Date.now() - startTime
    findResponse,   \* the interval of the in-page poller is set
    lastTextLength, \* in-page poller
    stableCount,    \* in-page poller, and the loop of waitForResponseAndRender
    calls,          \* calls of the exposed functions on their way from the page to the host
    evalResolved,   \* the promise of the in-page poller is resolved
    host,           \* the closure of streamResponse on the host
    pc,             \* where waitForResponseAndRender stands
    lastLength,     \* waitForResponseAndRender
    finalText,      \* waitForResponseAndRender
    timers,         \* waitForResponseAndRender: keepAlive, the status animation, activeStopTyping
    abortRequested, \* set by the SIGINT handler
    exited,         \* process.exit was called
    rendered,       \* the final texts handed to marked() for the terminal, in order
    h,              \* history of the turn, read by the properties only
    chat,           \* the chat loop of startChatInterface: readline and the turns in flight
    nm,             \* a text under normalizeMarkdown: the input and the results
    walk,           \* a reply element under domToMarkdown: the element and the results
    clip,           \* the page under fetchCopyMarkdown: the copy listener and the overrides
    menu            \* the menu of selectChatFromList

\* The variables of one turn.
turnVars == <<entry, fn, doc, initialCount, elapsed, findResponse, lastTextLength,
              stableCount, calls, evalResolved, host, pc, lastLength, finalText, timers,
              abortRequested, exited, rendered, h>>

vars == <<turnVars, chat, nm, walk, clip, menu>>

\* The chat loop before any input: pending = the lines of the chunk that
\* stdin delivered for which readline has not yet emitted 'line', paused =
\* rl.pause() was called last (not rl.resume()), active = the prompts of the
\* calls of sendPromptToGemini that have not returned, turns = the calls
\* started, prompted = rl.prompt() was called after the last line, closed = process.exit.
chatStart ==
    [pending |-> <<>>, paused |-> FALSE, active |-> <<>>, turns |-> 0,
     prompted |-> TRUE, closed |-> FALSE]

\* A text before normalizeMarkdown is applied: lines = its lines, input = the
\* text, out = normalizeMarkdown(input), again = normalizeMarkdown(out);
\* wrapAt = for a table with a wrapped row, the position of the first of the two
\* raw lines of that row (else 0); scan = the scan state (out, inFence, inTable,
\* tablePipeCount) after each line of the first call.
nmOf(ls, w) ==
    [lines |-> ls, wrapAt |-> w, input |-> JoinLines(ls), out |-> Null, again |-> Null,
     scan |-> <<>>]

\* No text is being normalised.
nmStart == nmOf(<< <<>> >>, 0)

\* A reply element before domToMarkdown is applied: root = the element, md =
\* domToMarkdown(root), out = normalizeMarkdown(md); family, kind, code and
\* shape tell how the element was put together (WalkInputs).
walkOf(family, kind, code, shape, root) ==
    [family |-> family, kind |-> kind, code |-> code, shape |-> shape, root |-> root,
     md |-> Null, out |-> Null]

\* No element is being walked.
walkStart == walkOf("none", "none", <<>>, <<>>, <<>>)

\* The menu of selectChatFromList over a list of n chats (chats[i] is written
\* i, from 0): isTTY = process.stdin.isTTY, wasRaw and raw = the raw mode of
\* stdin at the call and now, called = the function was called, listening =
\* onKeypress is a listener of 'keypress', index = the selected item, start
\* and end = the window of the latest render, resolves = the calls of resolve
\* (the return without a terminal included), result = the value of the
\* promise (-1: null), keys = the key presses so far, key = the latest one.
menuOf(n, isTTY, wasRaw) ==
    [n |-> n, isTTY |-> isTTY, wasRaw |-> wasRaw, raw |-> wasRaw, called |-> FALSE,
     listening |-> FALSE, index |-> 0, start |-> 0, end |-> 0, resolves |-> 0,
     result |-> 0 - 1, keys |-> 0, key |-> "none"]

\* No menu is shown.
menuStart == menuOf(0, FALSE, FALSE)

\* A function of the page as a value: fn = what a call of it does ("native":
\* what the browser's own function does, "capture": what the override of
\* fetchCopyMarkdown does, "none": no function), binds = how many times
\* Function.prototype.bind wraps it.
Fn(does, binds) == [fn |-> does, binds |-> binds]

\* The page that fetchCopyMarkdown works on: hasButton = the container of the
\* latest candidate holds the copy button, hasClipboard = navigator.clipboard
\* and its writeText exist, listeners = the 'copy' listeners of the document
\* that fetchCopyMarkdown added, writeText = navigator.clipboard.writeText,
\* execCommand = document.execCommand, clipboard = the text on the system
\* clipboard; of the call in flight: inFlight = the page function waits for
\* its timer of 50 ms, captured, originalWriteText, originalExecCommand = its
\* local variables; calls = the calls so far, result = what the latest returned.
clipOf(hasButton, hasClipboard) ==
    [hasButton |-> hasButton, hasClipboard |-> hasClipboard, listeners |-> 0,
     writeText |-> IF hasClipboard THEN Fn("native", 0) ELSE Fn("none", 0),
     execCommand |-> "native", clipboard |-> Null, inFlight |-> FALSE,
     captured |-> Null, originalWriteText |-> Fn("none", 0),
     originalExecCommand |-> "native", calls |-> 0, result |-> Null]

\* The page before any call of fetchCopyMarkdown.
clipStart == clipOf(FALSE, FALSE)

pageVars == <<findResponse, lastTextLength, stableCount, calls, evalResolved>>

waitVars == <<pc, lastLength, finalText, timers>>

\* The closure variables of streamResponse; pendingTimeouts counts the
\* setTimeout(typeNextChar) not yet fired, finalizing = finalizeResponse awaits
\* fetchCopyMarkdown, finalText = its local variable, out = what it hands to
\* marked(), resolved = resolveStream was called.
hostStart ==
    [charQueue |-> <<>>, isTyping |-> FALSE, fullText |-> <<>>,
     responseCompleteTriggered |-> FALSE, finalizeStarted |-> FALSE,
     streamedText |-> <<>>, pendingTimeouts |-> 0, finalizing |-> FALSE,
     finalText |-> <<>>, out |-> <<>>, resolved |-> FALSE]

historyStart ==
    [chunks    |-> <<>>,     \* every chunk the poller emitted, concatenated
     onlyGrew  |-> TRUE,     \* every tick of the in-page poller so far observed a
                             \* text that extends the text observed before
     observed  |-> Null,     \* while onlyGrew: the text the latest tick observed
     unchanged |-> 0,        \* while onlyGrew: the consecutive ticks up to now that
                             \* observed the same text as the tick before (counted
                             \* up to the number that ends the poll)
     cause     |-> "none",   \* why polling stopped
     completes |-> 0,        \* invocations of streamHandlers.onResponseComplete
     finalMds  |-> <<>>,     \* the arguments of streamHandlers.onFinalMarkdown
     copied    |-> Null,     \* the copy result that finalisation accepted; in
                             \* waitForResponseAndRender what fetchCopyMarkdown returned
     dom       |-> Null,     \* what fetchDomMarkdown returned (null: it was not called)
     raw       |-> Null,     \* the final text of the turn as selected, before any
                             \* normalisation (null: none selected yet)
     added     |-> FALSE,    \* an element was added after the baseline count
     removed   |-> FALSE,    \* an element was removed after the baseline count
     regrew    |-> FALSE]    \* a tick observed a longer text while the stability
                             \* counter was above 0

Programs ==
    {<<"chatbot.js", "streamResponse">>, <<"run-chatbot.sh", "streamResponse">>,
     <<"part_000", "streamResponse">>, <<"part_000", "waitForResponseAndRender">>}

\* The variables of a turn when sendPromptToGemini calls the waiting function.
TurnInit ==
    /\ \E p \in Programs : entry = p[1] /\ fn = p[2]
    /\ doc \in PriorDocs
    /\ initialCount = countCandidates(doc)
    /\ elapsed = 0
    /\ findResponse = (fn = "streamResponse")
    /\ lastTextLength = 0
    /\ stableCount = 0
    /\ calls = <<>>
    /\ evalResolved = FALSE
    /\ host = hostStart
    /\ pc = IF fn = "waitForResponseAndRender" THEN "poll" ELSE "stream"
    /\ lastLength = 0
    /\ finalText = Null
    /\ timers = [keepAlive |-> fn = "waitForResponseAndRender",
                 status |-> fn = "waitForResponseAndRender",
                 activeStopTyping |-> fn = "waitForResponseAndRender",
                 hasStartedTyping |-> FALSE]
    /\ abortRequested = FALSE
    /\ exited = FALSE
    /\ rendered = <<>>
    /\ h = historyStart

Init ==
    /\ TurnInit
    /\ chat = chatStart
    /\ nm = nmStart
    /\ walk = walkStart
    /\ clip = clipStart
    /\ menu = menuStart

(* ------------------------------------------------------------------ *)
(* The page: the reply under observation changes                       *)
(* ------------------------------------------------------------------ *)

\* The process has ended or the function has returned.
TurnOver ==
    \/ exited
    \/ fn = "streamResponse" /\ host.resolved
    \/ fn = "waitForResponseAndRender" /\ pc \in {"returned", "threw"}

\* A poller is still running.
Polling ==
    /\ ~exited
    /\ IF fn = "streamResponse" THEN findResponse ELSE pc = "poll"

\* The next step that reads the page can read the copy button: the loop of
\* waitForResponseAndRender, and fetchCopyMarkdown. (streamResponse reads it
\* in finalizeResponse only: what the page did to it earlier shows there.)
CopyIsRead ==
    /\ ~TurnOver
    /\ IF fn = "streamResponse" THEN host.finalizing ELSE pc \in {"poll", "copy"}

\* A later step of the turn can read the inner text of the reply.
TextIsRead ==
    /\ ~exited
    /\ IF fn = "streamResponse" THEN findResponse
       ELSE pc \in {"poll", "copy", "dom", "domIfAny"}

\* A later step of the turn can look for the latest candidate.
CandidatesAreRead == TextIsRead \/ CopyIsRead

\* The position of the reply of this turn, 0 when it is not in the document.
replyAt == IF h.added /\ ~h.removed THEN Len(doc) ELSE 0

\* The page adds the element of the new reply, inside a container or not.
\* (A change of the page that no later step of the turn can read is left out.)
ReplyAppears ==
    /\ CandidatesAreRead /\ ~h.added
    /\ \E sc \in BOOLEAN : doc' = Append(doc, Element(sc, <<>>, FALSE, FALSE))
    /\ h' = [h EXCEPT !.added = TRUE]
    /\ UNCHANGED <<chat, nm, walk, clip, menu, entry, fn, initialCount, elapsed, pageVars, host, waitVars,
                   abortRequested, exited, rendered>>

\* The reply's inner text changes: it grows as the reply streams in, and it
\* can be rewritten or shortened by the page.
ReplyTextChanges ==
    /\ TextIsRead /\ replyAt # 0
    /\ \E t \in Texts \ {doc[replyAt].text} : doc' = [doc EXCEPT ![replyAt].text = t]
    /\ UNCHANGED <<chat, nm, walk, clip, menu, entry, fn, initialCount, elapsed, pageVars, host, waitVars,
                   abortRequested, exited, rendered, h>>

\* The page shows or hides the regenerate / thumb-up control of the reply's container.
ReplyMarkerChanges ==
    /\ fn = "streamResponse" /\ Polling
    /\ replyAt # 0 /\ doc[replyAt].scoped
    /\ doc' = [doc EXCEPT ![replyAt].marker = ~doc[replyAt].marker]
    /\ UNCHANGED <<chat, nm, walk, clip, menu, entry, fn, initialCount, elapsed, pageVars, host, waitVars,
                   abortRequested, exited, rendered, h>>

\* The page shows or hides the copy button of the reply's container.
ReplyCopyButtonChanges ==
    /\ CopyIsRead
    /\ replyAt # 0 /\ doc[replyAt].scoped
    /\ doc' = [doc EXCEPT ![replyAt].copy = ~doc[replyAt].copy]
    /\ UNCHANGED <<chat, nm, walk, clip, menu, entry, fn, initialCount, elapsed, pageVars, host, waitVars,
                   abortRequested, exited, rendered, h>>

\* The page removes the element of the new reply again.
ReplyRemoved ==
    /\ CandidatesAreRead /\ replyAt # 0
    /\ doc' = SubSeq(doc, 1, Len(doc) - 1)
    /\ h' = [h EXCEPT !.removed = TRUE]
    /\ UNCHANGED <<chat, nm, walk, clip, menu, entry, fn, initialCount, elapsed, pageVars, host, waitVars,
                   abortRequested, exited, rendered>>

\* The values of the clock that the running poller tells apart.
clockValues ==
    IF fn = "streamResponse" THEN {0, APPEAR_TIMEOUT_MS + 1, STREAM_CEILING_MS + 1}
    ELSE {0, WAIT_CEILING_MS + 1}

\* Time passes.
ClockAdvances ==
    /\ Polling
    /\ \E v \in clockValues : v > elapsed /\ elapsed' = v
    /\ UNCHANGED <<chat, nm, walk, clip, menu, entry, fn, doc, initialCount, pageVars, host, waitVars,
                   abortRequested, exited, rendered, h>>

(* ------------------------------------------------------------------ *)
(* streamResponse: the in-page poller (setInterval, 200 ms)            *)
(* ------------------------------------------------------------------ *)

Call(type, arg) == [type |-> type, arg |-> arg]

\* Mutant of observe: the whole text is emitted, not the new suffix.
observeEmitsWholeText(currentText, last, stable) ==
    IF Len(currentText) > last
      THEN [chunk |-> currentText, lastTextLength |-> Len(currentText), stableCount |-> 0]
    ELSE IF Len(currentText) = last /\ Len(currentText) > 0
      THEN [chunk |-> <<>>, lastTextLength |-> last, stableCount |-> stable + 1]
    ELSE [chunk |-> <<>>, lastTextLength |-> last, stableCount |-> stable]

\* Mutant of observe: growth does not reset the stability counter.
observeKeepsCount(currentText, last, stable) ==
    IF Len(currentText) > last
      THEN [chunk |-> Substring(currentText, last), lastTextLength |-> Len(currentText),
            stableCount |-> stable]
    ELSE IF Len(currentText) = last /\ Len(currentText) > 0
      THEN [chunk |-> <<>>, lastTextLength |-> last, stableCount |-> stable + 1]
    ELSE [chunk |-> <<>>, lastTextLength |-> last, stableCount |-> stable]

\* Mutant of observe: the length is tracked whenever it differs, as the loop of
\* waitForResponseAndRender tracks it.
observeTracksAnyChange(currentText, last, stable) ==
    IF Len(currentText) # last
      THEN [chunk |-> IF Len(currentText) > last THEN Substring(currentText, last) ELSE <<>>,
            lastTextLength |-> Len(currentText), stableCount |-> 0]
    ELSE IF Len(currentText) > 0
      THEN [chunk |-> <<>>, lastTextLength |-> last, stableCount |-> stable + 1]
    ELSE [chunk |-> <<>>, lastTextLength |-> last, stableCount |-> stable]

\* The text comparison of one tick: the chunk to emit (empty = none) and the
\* new lastTextLength and stableCount.
observe(currentText, last, stable) ==
    IF Len(currentText) > last
      THEN [chunk |-> Substring(currentText, last),
            lastTextLength |-> Len(currentText), stableCount |-> 0]
    ELSE IF Len(currentText) = last /\ Len(currentText) > 0
      THEN [chunk |-> <<>>, lastTextLength |-> last, stableCount |-> stable + 1]
    ELSE [chunk |-> <<>>, lastTextLength |-> last, stableCount |-> stable]

\* The candidate's container exists and holds a regenerate or thumb-up button.
isUIComplete(el) == el.scoped /\ el.marker

\* Mutant of shouldFinish: the stability threshold is off by one.
shouldFinishAfterFive(ui, stable, last, t) ==
    ui \/ (stable >= STREAM_STABLE_OVER /\ last > 0) \/ t > STREAM_CEILING_MS

\* Mutant of shouldFinish: the marker ends the poll only once the text is stable.
shouldFinishMarkerWhenStable(ui, stable, last, t) ==
    (ui /\ stable > 0) \/ (stable > STREAM_STABLE_OVER /\ last > 0) \/ t > STREAM_CEILING_MS

\* if (isUIComplete || (stableCount > 5 && lastTextLength > 0) || (Date.now() - startTime > 120000))
shouldFinish(ui, stable, last, t) ==
    ui \/ (stable > STREAM_STABLE_OVER /\ last > 0) \/ t > STREAM_CEILING_MS

\* Which of the three conditions ended the poll: the marker, else the
\* ceiling, else (neither held) the stability counter.
finishCause(ui, stable, last, t) ==
    IF ui THEN "marker"
    ELSE IF t > STREAM_CEILING_MS THEN "ceiling"
    ELSE "stable"

\* The time-out branch logs through chalk, a binding of the host that the
\* page does not have: in part_000 the callback throws a ReferenceError there,
\* after clearInterval and before onResponseComplete and resolve.
timeoutBranchThrows(e) == e = "part_000"

\* Mutant of tickCalls: the completing tick signals completion first.
tickCallsCompleteFirst(chunk, fin, md) ==
    (IF fin THEN <<Call("onResponseComplete", <<>>), Call("onFinalMarkdown", md)>> ELSE <<>>)
    \o (IF chunk # <<>> THEN <<Call("onNewChunk", chunk)>> ELSE <<>>)

\* The calls of the exposed functions that one tick with a candidate issues,
\* in order: window.onNewChunk(newChunk) when the text grew, then, when the
\* tick ends the poll, window.onFinalMarkdown(finalMarkdown) and
\* window.onResponseComplete().
tickCalls(chunk, fin, md) ==
    (IF chunk # <<>> THEN <<Call("onNewChunk", chunk)>> ELSE <<>>)
    \o (IF fin THEN <<Call("onFinalMarkdown", md), Call("onResponseComplete", <<>>)>>
               ELSE <<>>)

\* The history after a tick that observed text cur.
historyObserved(cur) ==
    IF h.onlyGrew /\ (h.observed = Null \/ StartsWith(cur, h.observed))
      THEN [h EXCEPT !.observed  = cur,
                     !.unchanged = IF h.observed = cur
                                     THEN Min(h.unchanged + 1, STREAM_STABLE_OVER + 1)
                                     ELSE 0]
      ELSE [h EXCEPT !.onlyGrew = FALSE, !.observed = Null, !.unchanged = 0]

\* The history after a tick that found no candidate beyond the baseline.
historyMissed ==
    IF h.observed = Null THEN h
    ELSE [h EXCEPT !.onlyGrew = FALSE, !.observed = Null, !.unchanged = 0]

\* One run of the interval callback. (The host handles a call within the
\* 200 ms between two runs: a run finds no call of an earlier run in flight.)
PollTick ==
    /\ fn = "streamResponse" /\ findResponse /\ ~exited /\ calls = <<>>
    /\ IF Len(candidates(doc)) > initialCount
         THEN LET el   == doc[latestCandidate(doc)]
                  o    == observe(el.text, lastTextLength, stableCount)
                  ui   == isUIComplete(el)
                  fin  == shouldFinish(ui, o.stableCount, o.lastTextLength, elapsed)
                  sent == tickCalls(o.chunk, fin, finalMarkdownOf(el))
                  hist == historyObserved(el.text)
              IN  /\ lastTextLength' = o.lastTextLength
                  /\ stableCount' = o.stableCount
                  /\ calls' = calls \o sent
                  /\ findResponse' = ~fin
                  /\ evalResolved' = fin
                  /\ h' = [hist EXCEPT !.chunks = @ \o o.chunk,
                                       !.regrew = @ \/ (stableCount > 0
                                                         /\ Len(el.text) > lastTextLength),
                                       !.cause = IF fin
                                                   THEN finishCause(ui, o.stableCount,
                                                                    o.lastTextLength, elapsed)
                                                   ELSE @]
         ELSE IF elapsed > APPEAR_TIMEOUT_MS
           THEN /\ findResponse' = FALSE
                /\ IF timeoutBranchThrows(entry)
                     THEN UNCHANGED <<calls, evalResolved>>
                     ELSE /\ calls' = Append(calls, Call("onResponseComplete", <<>>))
                          /\ evalResolved' = TRUE
                /\ h' = [historyMissed EXCEPT !.cause = "timeout"]
                /\ UNCHANGED <<lastTextLength, stableCount>>
         ELSE /\ h' = historyMissed
              /\ UNCHANGED pageVars
    /\ UNCHANGED <<chat, nm, walk, clip, menu, entry, fn, doc, initialCount, elapsed, host, waitVars,
                   abortRequested, exited, rendered>>

(* ------------------------------------------------------------------ *)
(* streamResponse: the host side (typing queue and finalisation)       *)
(* ------------------------------------------------------------------ *)

\* The queue is empty and the response is complete. chatbot.js renders
\* fullText at once; the later versions start finalizeResponse, once, which
\* reads fullText and awaits fetchCopyMarkdown.
finishTyping(e, hs) ==
    IF e = "chatbot.js"
      THEN [hs EXCEPT !.out = Append(@, hs.fullText), !.resolved = TRUE]
    ELSE IF ~hs.finalizeStarted
      THEN [hs EXCEPT !.finalizeStarted = TRUE, !.finalizing = TRUE,
                      !.finalText = hs.fullText]
    ELSE hs

\* Mutant of typeNextChar: the character is taken from the back of the queue.
typeNextCharFromBack(e, hs) ==
    IF hs.charQueue = <<>>
      THEN LET idle == [hs EXCEPT !.isTyping = FALSE]
           IN  IF hs.responseCompleteTriggered THEN finishTyping(e, idle) ELSE idle
      ELSE [hs EXCEPT !.isTyping = TRUE,
                      !.charQueue = SubSeq(@, 1, Len(@) - 1),
                      !.fullText = Append(@, hs.charQueue[Len(hs.charQueue)]),
                      !.streamedText = Append(@, hs.charQueue[Len(hs.charQueue)]),
                      !.pendingTimeouts = @ + 1]

typeNextChar(e, hs) ==
    IF hs.charQueue = <<>>
      THEN LET idle == [hs EXCEPT !.isTyping = FALSE]
           IN  IF hs.responseCompleteTriggered THEN finishTyping(e, idle) ELSE idle
      ELSE [hs EXCEPT !.isTyping = TRUE,
                      !.charQueue = Tail(@),
                      !.fullText = Append(@, Head(hs.charQueue)),
                      !.streamedText = Append(@, Head(hs.charQueue)),
                      !.pendingTimeouts = @ + 1]

\* Mutant of onNewChunk: typeNextChar is called whether or not a chain runs.
onNewChunkAlwaysTypes(e, hs, chunk) ==
    typeNextChar(e, [hs EXCEPT !.charQueue = @ \o chunk])

\* streamHandlers.onNewChunk
onNewChunk(e, hs, chunk) ==
    LET queued == [hs EXCEPT !.charQueue = @ \o chunk]
    IN  IF ~hs.isTyping THEN typeNextChar(e, queued) ELSE queued

\* streamHandlers.onFinalMarkdown
onFinalMarkdown(e, hs, md) == [hs EXCEPT !.fullText = md]

\* streamHandlers.onResponseComplete
onResponseComplete(e, hs) ==
    LET done == [hs EXCEPT !.responseCompleteTriggered = TRUE]
    IN  IF ~hs.isTyping /\ hs.charQueue = <<>> THEN typeNextChar(e, done) ELSE done

\* The host runs the handler of the oldest call in flight.
DeliverCall ==
    /\ fn = "streamResponse" /\ ~exited /\ calls # <<>>
    /\ LET c == Head(calls)
       IN  /\ host' = CASE c.type = "onNewChunk" -> onNewChunk(entry, host, c.arg)
                        [] c.type = "onFinalMarkdown" -> onFinalMarkdown(entry, host, c.arg)
                        [] OTHER -> onResponseComplete(entry, host)
           /\ h' = CASE c.type = "onFinalMarkdown" -> [h EXCEPT !.finalMds = Append(@, c.arg)]
                     [] c.type = "onResponseComplete" ->
                          [h EXCEPT !.completes = @ + 1,
                                    !.raw = IF host'.resolved /\ ~host.resolved
                                              THEN host.fullText ELSE @]
                     [] OTHER -> h
    /\ calls' = Tail(calls)
    /\ UNCHANGED <<chat, nm, walk, clip, menu, entry, fn, doc, initialCount, elapsed, findResponse, lastTextLength,
                   stableCount, evalResolved, waitVars, abortRequested, exited, rendered>>

\* A setTimeout(typeNextChar, delay) fires.
TypingTimerFires ==
    /\ fn = "streamResponse" /\ ~exited /\ host.pendingTimeouts > 0
    /\ host' = typeNextChar(entry, [host EXCEPT !.pendingTimeouts = @ - 1])
    /\ h' = [h EXCEPT !.raw = IF host'.resolved /\ ~host.resolved
                                THEN host.fullText ELSE @]
    /\ UNCHANGED <<chat, nm, walk, clip, menu, entry, fn, doc, initialCount, elapsed, pageVars, waitVars,
                   abortRequested, exited, rendered>>

\* The final text of finalizeResponse, from its local finalText and the copy result.
finalizedText(local, copied) ==
    normalizeMarkdown(IF ~IsBlank(copied) THEN copied ELSE local)

\* finalizeResponse resumes after fetchCopyMarkdown and renders.
FinalizeResponse ==
    /\ fn = "streamResponse" /\ ~exited /\ host.finalizing
    /\ \E copied \in fetchCopyMarkdown(doc) :
          /\ host' = [host EXCEPT !.finalizing = FALSE,
                                  !.fullText = finalizedText(host.finalText, copied),
                                  !.finalText = finalizedText(host.finalText, copied),
                                  !.out = Append(@, finalizedText(host.finalText, copied)),
                                  !.resolved = TRUE]
          /\ h' = [h EXCEPT !.copied = IF ~IsBlank(copied) THEN copied ELSE Null,
                             !.raw = IF ~IsBlank(copied) THEN copied ELSE host.finalText]
    /\ UNCHANGED <<chat, nm, walk, clip, menu, entry, fn, doc, initialCount, elapsed, pageVars, waitVars,
                   abortRequested, exited, rendered>>

(* ------------------------------------------------------------------ *)
(* waitForResponseAndRender (part_000)                                 *)
(* ------------------------------------------------------------------ *)

\* The state the loop reads from the page in one evaluate.
pollState(d, baseline) ==
    IF Len(candidates(d)) <= baseline
      THEN [hasCopy |-> FALSE, textLength |-> 0]
      ELSE LET el == d[latestCandidate(d)]
           IN  [hasCopy |-> el.scoped /\ el.copy, textLength |-> Len(el.text)]

\* The length comparison of one iteration: the new lastLength and stableCount.
track(textLength, last, stable) ==
    IF textLength > 0
      THEN IF textLength = last
             THEN [lastLength |-> last, stableCount |-> stable + 1]
             ELSE [lastLength |-> textLength, stableCount |-> 0]
      ELSE [lastLength |-> last, stableCount |-> stable]

\* The breaks of one iteration after the evaluate, in the order of the code.
loopBreaks(st, stable, t) ==
    \/ st.hasCopy
    \/ st.textLength > 0 /\ stable >= WAIT_STABLE_MIN
    \/ t > WAIT_CEILING_MS

breakCause(st, stable, t) ==
    IF st.hasCopy THEN "marker"
    ELSE IF st.textLength > 0 /\ stable >= WAIT_STABLE_MIN THEN "stable"
    ELSE "ceiling"

\* finally { clearInterval(keepAlive) }; status.stop(); activeStopTyping = null
timersStopped ==
    [timers EXCEPT !.keepAlive = FALSE, !.status = FALSE, !.activeStopTyping = FALSE]

\* One iteration of while (true), up to the sleep of 500 ms or the break.
WaitTick ==
    /\ fn = "waitForResponseAndRender" /\ pc = "poll" /\ ~exited
    /\ IF abortRequested
         THEN /\ pc' = "copy"
              /\ timers' = timersStopped
              /\ h' = [h EXCEPT !.cause = "abort"]
              /\ UNCHANGED <<lastLength, stableCount>>
         ELSE LET st  == pollState(doc, initialCount)
                  tr  == IF st.hasCopy
                           THEN [lastLength |-> lastLength, stableCount |-> stableCount]
                           ELSE track(st.textLength, lastLength, stableCount)
                  brk == loopBreaks(st, tr.stableCount, elapsed)
                  typ == timers.hasStartedTyping \/ st.textLength > 0
              IN  /\ lastLength' = tr.lastLength
                  /\ stableCount' = tr.stableCount
                  /\ pc' = IF brk THEN "copy" ELSE "poll"
                  /\ timers' = IF brk THEN [timersStopped EXCEPT !.hasStartedTyping = typ]
                                      ELSE [timers EXCEPT !.hasStartedTyping = typ]
                  /\ h' = [h EXCEPT !.cause = IF brk
                                                 THEN breakCause(st, tr.stableCount, elapsed)
                                                 ELSE @,
                                     !.regrew = @ \/ (stableCount > 0 /\ ~st.hasCopy
                                                       /\ st.textLength > lastLength)]
    /\ UNCHANGED <<chat, nm, walk, clip, menu, entry, fn, doc, initialCount, elapsed, findResponse, lastTextLength,
                   calls, evalResolved, host, finalText, abortRequested, exited, rendered>>

\* Mutant of WaitCopy: without a copy result the walker is not asked.
WaitCopySkipsWalker ==
    /\ fn = "waitForResponseAndRender" /\ pc = "copy" /\ ~exited
    /\ \E copied \in fetchCopyMarkdown(doc) :
          /\ finalText' = copied
          /\ pc' = IF copied = Null THEN "render"
                   ELSE IF IsBlank(copied) THEN "dom"
                   ELSE IF ~looksLikeMarkdown(copied) THEN "domIfAny"
                   ELSE "render"
          /\ h' = [h EXCEPT !.copied = copied]
    /\ UNCHANGED <<chat, nm, walk, clip, menu, entry, fn, doc, initialCount, elapsed, pageVars, host, lastLength,
                   timers, abortRequested, exited, rendered>>

\* The page.evaluate of an iteration rejects (the page raised an error): the
\* finally clause clears keepAlive and the error leaves the function, past
\* status.stop(), to the catch clause of sendPromptToGemini, which logs it and
\* returns.
WaitTickThrows ==
    /\ fn = "waitForResponseAndRender" /\ pc = "poll" /\ ~exited /\ ~abortRequested
    /\ pc' = "threw"
    /\ timers' = [timers EXCEPT !.keepAlive = FALSE]
    /\ h' = [h EXCEPT !.cause = "error"]
    /\ UNCHANGED <<chat, nm, walk, clip, menu, entry, fn, doc, initialCount, elapsed, pageVars, host, lastLength,
                   finalText, abortRequested, exited, rendered>>

\* The keepAlive interval fires and the page rejects its page.evaluate: the
\* callback discards the promise (void), no handler of unhandled rejections
\* is installed, and Node ends the process. (When the page answers, the
\* callback changes nothing here.)
KeepAliveRejects ==
    /\ fn = "waitForResponseAndRender" /\ ~exited /\ timers.keepAlive
    /\ exited' = TRUE
    /\ h' = [h EXCEPT !.cause = "unhandledRejection"]
    /\ UNCHANGED <<chat, nm, walk, clip, menu, entry, fn, doc, initialCount, elapsed, pageVars, host, waitVars,
                   abortRequested, rendered>>

\* let finalText = await fetchCopyMarkdown(page), and the choice of what follows
WaitCopy ==
    /\ fn = "waitForResponseAndRender" /\ pc = "copy" /\ ~exited
    /\ \E copied \in fetchCopyMarkdown(doc) :
          /\ finalText' = copied
          /\ pc' = IF IsBlank(copied) THEN "dom"
                   ELSE IF ~looksLikeMarkdown(copied) THEN "domIfAny"
                   ELSE "render"
          /\ h' = [h EXCEPT !.copied = copied]
    /\ UNCHANGED <<chat, nm, walk, clip, menu, entry, fn, doc, initialCount, elapsed, pageVars, host, lastLength,
                   timers, abortRequested, exited, rendered>>

\* Mutant of WaitDom: a copy text that does not look like Markdown is kept
\* whatever the walker returns.
WaitDomKeepsCopy ==
    /\ fn = "waitForResponseAndRender" /\ pc \in {"dom", "domIfAny"} /\ ~exited
    /\ \E domMarkdown \in {fetchDomMarkdown(doc), <<>>} :
          /\ finalText' = IF pc = "dom" THEN domMarkdown ELSE finalText
          /\ h' = [h EXCEPT !.dom = domMarkdown]
    /\ pc' = "render"
    /\ UNCHANGED <<chat, nm, walk, clip, menu, entry, fn, doc, initialCount, elapsed, pageVars, host, lastLength,
                   timers, abortRequested, exited, rendered>>

\* await fetchDomMarkdown(page), which returns '' on a page error
WaitDom ==
    /\ fn = "waitForResponseAndRender" /\ pc \in {"dom", "domIfAny"} /\ ~exited
    /\ \E domMarkdown \in {fetchDomMarkdown(doc), <<>>} :
          /\ finalText' = IF pc = "dom" \/ ~IsBlank(domMarkdown) THEN domMarkdown
                          ELSE finalText
          /\ h' = [h EXCEPT !.dom = domMarkdown]
    /\ pc' = "render"
    /\ UNCHANGED <<chat, nm, walk, clip, menu, entry, fn, doc, initialCount, elapsed, pageVars, host, lastLength,
                   timers, abortRequested, exited, rendered>>

\* finalText = normalizeMarkdown(finalText || ''); marked(finalText) is written out
WaitRender ==
    /\ fn = "waitForResponseAndRender" /\ pc = "render" /\ ~exited
    /\ rendered' = Append(rendered,
                          normalizeMarkdown(IF finalText = Null THEN <<>> ELSE finalText))
    /\ pc' = "returned"
    /\ h' = [h EXCEPT !.raw = IF finalText = Null THEN <<>> ELSE finalText]
    /\ UNCHANGED <<chat, nm, walk, clip, menu, entry, fn, doc, initialCount, elapsed, pageVars, host, lastLength,
                   finalText, timers, abortRequested, exited>>

(* ------------------------------------------------------------------ *)
(* The process                                                         *)
(* ------------------------------------------------------------------ *)

\* Mutant of sigintHandler: the first interrupt only sets the flag.
sigintOnlySetsFlag(aborted) == [abortRequested |-> TRUE, exit |-> aborted]

\* process.on('SIGINT'): what the handler leaves, given the flag it found. It
\* exits on the second interrupt at its first line and on the first one at
\* its last line.
sigintHandler(aborted) == [abortRequested |-> TRUE, exit |-> TRUE]

\* An interrupt arrives during the turn that sendPromptToGemini of part_000 runs.
Interrupt ==
    /\ entry = "part_000" /\ fn = "waitForResponseAndRender" /\ ~TurnOver
    /\ abortRequested' = sigintHandler(abortRequested).abortRequested
    /\ exited' = sigintHandler(abortRequested).exit
    /\ timers' = [timers EXCEPT !.status = FALSE, !.activeStopTyping = FALSE]
    /\ UNCHANGED <<chat, nm, walk, clip, menu, entry, fn, doc, initialCount, elapsed, pageVars, host, pc,
                   lastLength, finalText, rendered, h>>

\* The final texts handed to marked() in this turn.
finalRenders == IF fn = "streamResponse" THEN host.out ELSE rendered

Next ==
    \/ ReplyAppears
    \/ ReplyTextChanges
    \/ ReplyMarkerChanges
    \/ ReplyCopyButtonChanges
    \/ ReplyRemoved
    \/ ClockAdvances
    \/ PollTick
    \/ DeliverCall
    \/ TypingTimerFires
    \/ FinalizeResponse
    \/ WaitTick
    \/ WaitTickThrows
    \/ KeepAliveRejects
    \/ WaitCopy
    \/ WaitDom
    \/ WaitRender
    \/ Interrupt

Spec == Init /\ [][Next]_vars

(* ------------------------------------------------------------------ *)
(* startChatInterface: the 'line' handler of readline                  *)
(* ------------------------------------------------------------------ *)

\* Most lines in one chunk of input (a paste, or piped input).
MaxChunk == 2

\* Most calls of sendPromptToGemini in one run.
MaxTurns == 3

\* The lines a user enters: an empty line, the exit command, two prompts.
InputLines == {<<>>, <<"exit">>, <<"a">>, <<"b">>}

Chunks == UNION {[1..n -> InputLines] : n \in 1..MaxChunk}

\* The chat loop of chatbot.js and of part_000, before any input.
InitChat ==
    /\ Init
    /\ <<entry, fn>> \in {<<"chatbot.js", "streamResponse">>,
                          <<"part_000", "waitForResponseAndRender">>}
    /\ doc = <<>>

\* stdin, while it flows, delivers a chunk of lines to readline.
ChunkArrives ==
    /\ ~chat.closed /\ ~chat.paused /\ chat.pending = <<>>
    /\ chat.turns < MaxTurns
    /\ \E c \in Chunks : chat' = [chat EXCEPT !.pending = c]
    /\ UNCHANGED <<turnVars, nm, walk, clip, menu>>

\* The handler of 'line' up to its first await, for the input it is given.
lineHandler(c, input) ==
    IF input = <<"exit">>
      THEN [c EXCEPT !.closed = TRUE, !.pending = <<>>]
    ELSE IF input # <<>>
      THEN [c EXCEPT !.paused = TRUE, !.active = Append(@, input), !.turns = @ + 1,
                     !.prompted = FALSE]
    ELSE [c EXCEPT !.prompted = TRUE]

\* readline emits 'line' for the next line of the chunk it was given: it
\* goes through the chunk without waiting for the handler's promise, and
\* rl.pause() stops the input stream, not the 'line' events of lines that
\* have already arrived.
LineEvent ==
    /\ ~chat.closed /\ chat.pending # <<>>
    /\ chat' = lineHandler([chat EXCEPT !.pending = Tail(@)], Trim(Head(chat.pending)))
    /\ UNCHANGED <<turnVars, nm, walk, clip, menu>>

\* A call of sendPromptToGemini returns: rl.resume(); rl.prompt().
TurnReturns ==
    /\ ~chat.closed /\ chat.pending = <<>>
    /\ \E i \in 1..Len(chat.active) :
          chat' = [chat EXCEPT !.active = SubSeq(@, 1, i - 1) \o SubSeq(@, i + 1, Len(@)),
                               !.paused = FALSE, !.prompted = TRUE]
    /\ UNCHANGED <<turnVars, nm, walk, clip, menu>>

NextChat == ChunkArrives \/ LineEvent \/ TurnReturns

SpecChat == InitChat /\ [][NextChat]_vars

(* ------------------------------------------------------------------ *)
(* normalizeMarkdown applied to a text, and to its own result          *)
(* ------------------------------------------------------------------ *)

\* Most lines of a text put together from NormLines.
MaxLines == 4

\* Most table rows before, and after, the wrapped row of a table.
MaxRows == 1

\* Lines of a reply: blank, a paragraph line with trailing white space, one
\* with leading white space, one that ends with a hard break (two spaces), a
\* fence, an indented fence, a table row, a table separator, a list item.
NormLines ==
    {<<>>, <<"a", " ">>, <<" ", "b">>, <<"a", " ", " ">>,
     <<Backtick, Backtick, Backtick>>, <<" ", Backtick, Backtick, Backtick>>,
     <<"|", "a", "|", "b", "|">>, <<"|", "-", "|", "-", "|">>,
     <<"-", " ", "a">>}

FreeTexts == UNION {[1..n -> NormLines] : n \in 1..MaxLines}

\* The styles of a 2-column pipe table (header, separator, row) and the two
\* raw lines of a row one of whose cells is wrapped.
TableStyles ==
    {\* rows end with a pipe, the second cell is wrapped
     [header |-> <<"|", "a", "|", "b", "|">>, sep |-> <<"|", "-", "|", "-", "|">>,
      row |-> <<"|", "c", "|", "c", "|">>,
      first |-> <<"|", "a", "|", "b">>, second |-> <<"b", "|">>],
     \* rows end with a pipe, the first cell is wrapped
     [header |-> <<"|", "a", "|", "b", "|">>, sep |-> <<"|", "-", "|", "-", "|">>,
      row |-> <<"|", "c", "|", "c", "|">>,
      first |-> <<"|", "a">>, second |-> <<"a", "|", "b", "|">>],
     \* rows do not end with a pipe, the second cell is wrapped
     [header |-> <<"|", "a", "|", "b">>, sep |-> <<"|", "-", "|", "-">>,
      row |-> <<"|", "c", "|", "c">>,
      first |-> <<"|", "a", "|", "b">>, second |-> <<"b">>]}

\* n copies of line l
Rows(l, n) == [i \in 1..n |-> l]

\* Tables with one wrapped row, as inputs.
TableTexts ==
    {nmOf(<<t.header, t.sep>> \o Rows(t.row, before) \o <<t.first, t.second>>
             \o Rows(t.row, after), 3 + before) :
        t \in TableStyles, before \in 0..MaxRows, after \in 0..MaxRows}

InitNormalize ==
    /\ TurnInit
    /\ entry = "part_000" /\ fn = "waitForResponseAndRender" /\ doc = <<>>
    /\ chat = chatStart
    /\ nm \in {nmOf(ls, 0) : ls \in FreeTexts} \cup TableTexts
    /\ walk = walkStart
    /\ clip = clipStart
    /\ menu = menuStart

\* normalizeMarkdown(md)
Normalize ==
    /\ nm.out = Null
    /\ nm' = [nm EXCEPT !.out = normalizeMarkdown(nm.input),
                        !.scan = [i \in 1..Len(nm.lines) |-> normalizeScan(nm.lines, i)]]
    /\ UNCHANGED <<turnVars, chat, walk, clip, menu>>

\* normalizeMarkdown applied to a text that normalizeMarkdown returned
NormalizeAgain ==
    /\ nm.out # Null /\ nm.again = Null
    /\ nm' = [nm EXCEPT !.again = normalizeMarkdown(nm.out)]
    /\ UNCHANGED <<turnVars, chat, walk, clip, menu>>

NextNormalize == Normalize \/ NormalizeAgain

SpecNormalize == InitNormalize /\ [][NextNormalize]_vars

(* ------------------------------------------------------------------ *)
(* domToMarkdown applied to a reply element, and normalizeMarkdown     *)
(* applied to its result (waitForResponseAndRender)                    *)
(* ------------------------------------------------------------------ *)

\* Longest backtick run on a line of code.
MaxTicks == 3

\* Most lines of the text of a code element.
MaxCodeLines == 2

\* Most items of a list, and of a list nested in an item.
MaxItems == 2

\* Most cells of a table row.
MaxCols == 2

\* Most rows of a table body.
MaxBodyRows == 2

\* Most blocks put next to each other.
MaxBlocks == 2

P(t) == El("p", <<TextNode(t)>>)

\* Lines of code: one with trailing, one with leading white space, and
\* backtick runs.
CodeLines == {<<"a", " ">>, <<" ", "b">>} \cup {Repeat(<<Backtick>>, k) : k \in 1..MaxTicks}

\* Texts of a code element, with and without a final line break.
CodeTexts ==
    {JoinLines(ls) \o tail :
        ls \in UNION {[1..n -> CodeLines] : n \in 1..MaxCodeLines},
        tail \in {<<>>, <<"\n">>}}

\* The element that holds code text t: a pre with the text as its child, a pre
\* with a code child, a code-block with a language label and a pre with a code
\* child, a paragraph with inline code.
CodeElement(kind, t) ==
    IF kind = "pre" THEN El("pre", <<TextNode(t)>>)
    ELSE IF kind = "pre code" THEN El("pre", <<El("code", <<TextNode(t)>>)>>)
    ELSE IF kind = "code-block"
      THEN El("code-block",
              <<El("decoration", <<El("span", <<TextNode(<<" ", "A", "b", " ">>)>>)>>),
                El("pre", <<El("code", <<TextNode(t)>>)>>)>>)
    ELSE El("p", <<El("code", <<TextNode(t)>>)>>)

\* Replies with one code element, alone or after a paragraph (shape = the
\* blocks before it).
CodeInputs ==
    {walkOf("code", kind, t, before, El("div", before \o <<CodeElement(kind, t)>>)) :
        kind \in {"pre", "pre code", "code-block", "inline"},
        t \in CodeTexts,
        before \in {<<>>, <<P(<<"a">>)>>}}

\* What an item of a list holds after its text: nothing, or a list of count items.
Nests ==
    {[type |-> "none", count |-> 0]} \cup
    {[type |-> t, count |-> c] : t \in {"ul", "ol"}, c \in 1..MaxItems}

\* An item with text t, followed by the nested list if there is one
ListItem(t, nest) ==
    El("li", <<TextNode(t)>> \o
             (IF nest.type = "none" THEN <<>>
              ELSE <<El(nest.type, [j \in 1..nest.count |-> El("li", <<TextNode(<<"b">>)>>)])>>))

\* Replies with one list (shape = what each item holds after its text).
ListInputs ==
    {walkOf("list", type, <<>>, items,
            El("div", <<El(type, [i \in 1..Len(items) |-> ListItem(<<"a">>, items[i])])>>)) :
        type \in {"ul", "ol"},
        items \in UNION {[1..n -> Nests] : n \in 1..MaxItems}}

\* Texts of a table cell: plain, with a pipe, with white space to collapse.
CellTexts == {<<"a">>, <<"a", "|", "b">>, <<" ", "a", "\n", " ", "a", " ">>}

\* A row of a table: cells = how many cells, text = the text of each.
TableRows ==
    {[cells |-> 0, text |-> <<>>]} \cup
    {[cells |-> w, text |-> c] : w \in 1..MaxCols, c \in CellTexts}

\* A tr with n cells of tag cell and text t
Tr(cell, n, t) == El("tr", [i \in 1..n |-> El(cell, <<TextNode(t)>>)])

\* Replies with one table (kind "thead": a head section with one row of
\* shape.head th cells; kind "rows": no head section; shape.rows = the rows of
\* the body).
TableInputs ==
    {walkOf("table", kind, <<>>, [head |-> head, rows |-> rows],
            El("div", <<El("table",
                (IF kind = "thead"
                   THEN <<El("thead", <<Tr("th", head, <<"c">>)>>)>> ELSE <<>>)
                \o <<El("tbody", [i \in 1..Len(rows) |->
                                     Tr("td", rows[i].cells, rows[i].text)])>>)>>)) :
        kind \in {"thead", "rows"},
        head \in 1..MaxCols,
        rows \in UNION {[1..n -> TableRows] : n \in 1..MaxBodyRows}}

\* Block constructs: paragraph, heading, rule, lists, quote, code block, table.
Blocks ==
    {P(<<"a">>),
     El("h2", <<TextNode(<<"a">>)>>),
     El("hr", <<>>),
     El("ul", <<El("li", <<TextNode(<<"a">>)>>)>>),
     El("ol", <<El("li", <<P(<<"a">>)>>)>>),
     El("blockquote", <<P(<<"a">>)>>),
     El("pre", <<El("code", <<TextNode(<<"a">>)>>)>>),
     El("table", <<El("tbody", <<Tr("td", 1, <<"a">>)>>)>>)}

\* Replies of adjacent blocks: as children of the reply element, of a quote
\* in it, or of a list item in it.
BlockInputs ==
    {walkOf("blocks", kind, <<>>, bs,
            El("div", IF kind = "top" THEN bs
                      ELSE IF kind = "quote" THEN <<El("blockquote", bs)>>
                      ELSE <<El("ul", <<El("li", bs)>>)>>)) :
        kind \in {"top", "quote", "item"},
        bs \in UNION {[1..n -> Blocks] : n \in 1..MaxBlocks}}

\* Replies with inline constructs and nodes that are neither element nor text.
InlineInputs ==
    {walkOf("inline", "top", <<>>, <<>>,
            El("div", <<P(<<"a">>),
                        El("span", <<El("strong", <<TextNode(<<"a">>)>>), El("br", <<>>),
                                     El("em", <<TextNode(<<"b">>)>>),
                                     [El("a", <<TextNode(<<"c">>)>>) EXCEPT !.href = <<"a", ".", "b">>],
                                     [TextNode(<<"c">>) EXCEPT !.tag = "#comment"]>>)>>))}

WalkInputs == CodeInputs \cup ListInputs \cup TableInputs \cup BlockInputs \cup InlineInputs

InitWalk ==
    /\ TurnInit
    /\ entry = "part_000" /\ fn = "waitForResponseAndRender" /\ doc = <<>>
    /\ chat = chatStart
    /\ nm = nmStart
    /\ walk \in WalkInputs
    /\ clip = clipStart
    /\ menu = menuStart

\* finalText = await fetchDomMarkdown(page): domToMarkdown(candidate)
Walk ==
    /\ walk.family # "none" /\ walk.md = Null
    /\ walk' = [walk EXCEPT !.md = domToMarkdown(walk.root)]
    /\ UNCHANGED <<turnVars, chat, nm, clip, menu>>

\* finalText = normalizeMarkdown(finalText)
NormalizeWalked ==
    /\ walk.md # Null /\ walk.out = Null
    /\ walk' = [walk EXCEPT !.out = normalizeMarkdown(walk.md)]
    /\ UNCHANGED <<turnVars, chat, nm, clip, menu>>

NextWalk == Walk \/ NormalizeWalked

SpecWalk == InitWalk /\ [][NextWalk]_vars

(* ------------------------------------------------------------------ *)
(* selectChatFromList: the chat menu of /chats                         *)
(* ------------------------------------------------------------------ *)

\* Most chats in the list: one more than the menu shows at once.
MaxChats == 13

\* Most key presses while one menu is followed.
MaxKeys == 8

\* const maxToShow = Math.min(chats.length, 12)
MENU_ROWS == 12

\* resolve(null)
NoChat == 0 - 1

\* The keys of a 'keypress' event: the arrows, Enter, Escape, Ctrl-C, any
\* other key, and an event without key object.
Keys == {"up", "down", "return", "escape", "ctrl-c", "x", "none"}

\* a % b of JavaScript: the remainder has the sign of a.
jsRem(a, b) == IF a >= 0 THEN a % b ELSE 0 - ((0 - a) % b)

\* render(): the window of the list that is drawn around the selected item.
renderMenu(m) ==
    LET maxToShow == Min(m.n, MENU_ROWS)
        start     == Max(0, Min(m.index - (maxToShow \div 2), m.n - maxToShow))
    IN  [m EXCEPT !.start = start, !.end = start + maxToShow]

\* cleanup(): raw mode as it was, the listener removed.
cleanup(m) == [m EXCEPT !.raw = m.wasRaw, !.listening = FALSE]

\* resolve(value): the first call settles the promise.
resolveMenu(m, value) ==
    [m EXCEPT !.resolves = @ + 1, !.result = IF m.resolves = 0 THEN value ELSE @]

\* Mutant of onKeypress: the up arrow steps back without adding chats.length.
onKeypressUpUnwrapped(m, key) ==
    CASE key = "up" -> renderMenu([m EXCEPT !.index = jsRem(m.index - 1, m.n)])
      [] key = "down" -> renderMenu([m EXCEPT !.index = jsRem(m.index + 1, m.n)])
      [] key = "return" -> resolveMenu(cleanup(m), m.index)
      [] key \in {"escape", "ctrl-c"} -> resolveMenu(cleanup(m), NoChat)
      [] OTHER -> m

\* onKeypress(_str, key)
onKeypress(m, key) ==
    CASE key = "up" -> renderMenu([m EXCEPT !.index = jsRem(m.index - 1 + m.n, m.n)])
      [] key = "down" -> renderMenu([m EXCEPT !.index = jsRem(m.index + 1, m.n)])
      [] key = "return" -> resolveMenu(cleanup(m), m.index)
      [] key \in {"escape", "ctrl-c"} -> resolveMenu(cleanup(m), NoChat)
      [] OTHER -> m

\* selectChatFromList(chats), up to the return of the promise.
selectChatFromList(m) ==
    IF ~m.isTTY
      THEN resolveMenu([m EXCEPT !.called = TRUE], NoChat)
      ELSE renderMenu([m EXCEPT !.called = TRUE, !.raw = TRUE, !.listening = TRUE,
                                !.index = 0])

\* The /chats command has fetched a list of chats, never empty: the entry
\* "+ New Chat" is put in front of it.
InitMenu ==
    /\ TurnInit
    /\ entry = "part_000" /\ fn = "waitForResponseAndRender" /\ doc = <<>>
    /\ chat = chatStart
    /\ nm = nmStart
    /\ walk = walkStart
    /\ clip = clipStart
    /\ menu \in {menuOf(n, isTTY, wasRaw) :
                    n \in 1..MaxChats, isTTY \in BOOLEAN, wasRaw \in BOOLEAN}

\* const selected = await selectChatFromList(chats): the call
MenuOpens ==
    /\ menu.n > 0 /\ ~menu.called
    /\ menu' = selectChatFromList(menu)
    /\ UNCHANGED <<turnVars, chat, nm, walk, clip>>

\* stdin emits 'keypress': onKeypress runs if it is still a listener.
MenuKeypress ==
    /\ menu.called /\ menu.isTTY /\ menu.keys < MaxKeys
    /\ \E key \in Keys :
          menu' = [(IF menu.listening THEN onKeypress(menu, key) ELSE menu)
                      EXCEPT !.keys = @ + 1, !.key = key]
    /\ UNCHANGED <<turnVars, chat, nm, walk, clip>>

NextMenu == MenuOpens \/ MenuKeypress

SpecMenu == InitMenu /\ [][NextMenu]_vars

(* ------------------------------------------------------------------ *)
(* fetchCopyMarkdown: the interception of the page's copy action       *)
(* ------------------------------------------------------------------ *)

\* Most calls of fetchCopyMarkdown on one page.
MaxExtractions == 3

\* The page function from let captured = null to the override of
\* document.execCommand: the listener is added, the functions are saved and
\* overridden.
installCopyHooks(c) ==
    [c EXCEPT !.captured = Null,
              !.listeners = @ + 1,
              !.originalWriteText = IF c.hasClipboard
                                      THEN Fn(c.writeText.fn, c.writeText.binds + 1)
                                      ELSE Fn("none", 0),
              !.writeText = IF c.hasClipboard THEN Fn("capture", 0) ELSE @,
              !.originalExecCommand = c.execCommand,
              !.execCommand = "stub",
              !.inFlight = TRUE]

\* Mutant of restoreCopyHooks: document.execCommand is not put back.
restoreCopyHooksButExecCommand(c) ==
    [c EXCEPT !.listeners = @ - 1,
              !.writeText = IF c.originalWriteText.fn # "none"
                              THEN c.originalWriteText ELSE @,
              !.inFlight = FALSE,
              !.result = c.captured]

\* The callback of the timer of 50 ms: the listener is removed, the saved
\* functions are put back, the promise resolves with captured.
restoreCopyHooks(c) ==
    [c EXCEPT !.listeners = @ - 1,
              !.writeText = IF c.originalWriteText.fn # "none"
                              THEN c.originalWriteText ELSE @,
              !.execCommand = c.originalExecCommand,
              !.inFlight = FALSE,
              !.result = c.captured]

\* A page with or without copy button and clipboard API, untouched.
InitCopy ==
    /\ TurnInit
    /\ entry = "part_000" /\ fn = "waitForResponseAndRender" /\ doc = <<>>
    /\ chat = chatStart
    /\ nm = nmStart
    /\ walk = walkStart
    /\ menu = menuStart
    /\ clip \in {clipOf(hasButton, hasClipboard) :
                    hasButton \in BOOLEAN, hasClipboard \in BOOLEAN}

\* fetchCopyMarkdown is called (the host awaits each call: none is in
\* flight). Without copy button the page function returns null at once; else
\* it installs its hooks, clicks the button and waits 50 ms.
CopyStarts ==
    /\ ~clip.inFlight /\ clip.calls < MaxExtractions
    /\ clip' = IF ~clip.hasButton
                 THEN [clip EXCEPT !.calls = @ + 1, !.result = Null]
                 ELSE [installCopyHooks(clip) EXCEPT !.calls = @ + 1]
    /\ UNCHANGED <<turnVars, chat, nm, walk, menu>>

\* The page (the click handler of the copy button, or any other script)
\* calls navigator.clipboard.writeText(text).
PageWritesText ==
    /\ clip.hasClipboard
    /\ \E text \in CopyTexts :
          clip' = IF clip.writeText.fn = "capture"
                    THEN [clip EXCEPT !.captured = text]
                    ELSE [clip EXCEPT !.clipboard = text]
    /\ UNCHANGED <<turnVars, chat, nm, walk, menu>>

\* A 'copy' event of text reaches the document (the user copies a selection,
\* the page calls the browser's document.execCommand('copy'), or a script
\* dispatches the event): a listener of fetchCopyMarkdown reads the event's
\* data (an error of getData is swallowed) and prevents the default action;
\* without listener the text goes to the clipboard.
CopyEvent ==
    /\ \E text \in CopyTexts, readable \in BOOLEAN :
          clip' = IF clip.listeners > 0
                    THEN [clip EXCEPT !.captured = IF readable THEN text ELSE @]
                    ELSE [clip EXCEPT !.clipboard = text]
    /\ UNCHANGED <<turnVars, chat, nm, walk, menu>>

\* The page calls document.execCommand('copy') with text selected: the
\* override returns true and does nothing, the browser's function copies.
PageExecCommand ==
    /\ clip.execCommand = "native" /\ clip.listeners = 0
    /\ \E text \in CopyTexts : clip' = [clip EXCEPT !.clipboard = text]
    /\ UNCHANGED <<turnVars, chat, nm, walk, menu>>

\* The timer of 50 ms fires.
CopyTimerFires ==
    /\ clip.inFlight
    /\ clip' = restoreCopyHooks(clip)
    /\ UNCHANGED <<turnVars, chat, nm, walk, menu>>

\* The page navigates: page.evaluate rejects if a call is in flight, which
\* then returns null from its catch clause; the new document has the
\* browser's own functions and no listener.
PageNavigates ==
    /\ \E hasButton \in BOOLEAN :
          clip' = [clipOf(hasButton, clip.hasClipboard)
                      EXCEPT !.clipboard = clip.clipboard, !.calls = clip.calls,
                             !.result = IF clip.inFlight THEN Null ELSE clip.result]
    /\ clip' # clip
    /\ UNCHANGED <<turnVars, chat, nm, walk, menu>>

NextCopy ==
    \/ CopyStarts
    \/ PageWritesText
    \/ CopyEvent
    \/ PageExecCommand
    \/ CopyTimerFires
    \/ PageNavigates

SpecCopy == InitCopy /\ [][NextCopy]_vars

(* ------------------------------------------------------------------ *)
(* Properties                                                          *)
(* ------------------------------------------------------------------ *)

\* The calls of onResponseComplete issued by the page: in flight or handled.
completesIssued ==
    h.completes + Len(SelectSeq(calls, LAMBDA c : c.type = "onResponseComplete"))

\* The calls of onFinalMarkdown issued by the page: in flight or handled.
finalMdsIssued ==
    Len(h.finalMds) + Len(SelectSeq(calls, LAMBDA c : c.type = "onFinalMarkdown"))

\* The function has returned to sendPromptToGemini.
TurnEnded == TurnOver /\ ~exited

\* C1: when no reply element beyond the baseline ever appears and the turn
\* ends, no chunk was emitted and the final text handed to the terminal is the
\* empty string, whatever the baseline count.
C1_NoCandidateEmptyOutput ==
    (TurnEnded /\ ~h.added /\ h.cause \in {"timeout", "ceiling"}) =>
        (h.chunks = <<>> /\ finalRenders = << <<>> >>)

\* C2: when a turn of streamResponse finishes after onFinalMarkdown was
\* delivered, the text rendered as the final answer is the delivered Markdown,
\* or the accepted copy result (normalised where the entry point normalises).
C2_FinalReplacesStreamed ==
    (fn = "streamResponse" /\ host.resolved /\ h.finalMds # <<>>) =>
        LET md     == h.finalMds[Len(h.finalMds)]
            chosen == IF h.copied # Null THEN h.copied ELSE md
        IN  /\ host.out # <<>>
            /\ host.out[Len(host.out)] =
                  IF entry = "chatbot.js" THEN chosen ELSE normalizeMarkdown(chosen)

\* C3: in the in-page poller, while every observed text extends the one
\* observed before, the chunks emitted so far add up to exactly the observed
\* text (each growing tick emitted the new suffix), a poll that ends by
\* stability ends on the sixth consecutive unchanged tick, and a poll still
\* running on a non-empty text has seen fewer than six.
C3_SuffixesThenSixthStableTick ==
    (fn = "streamResponse" /\ h.onlyGrew /\ h.observed # Null) =>
        /\ h.chunks = h.observed
        /\ h.cause = "stable" => h.unchanged = 6
        /\ (findResponse /\ h.observed # <<>>) => h.unchanged < 6

\* C3 witness: the reply grew to "a " in steps, stayed, and the poll ended by stability.
C3_Witness ==
    /\ fn = "streamResponse" /\ h.onlyGrew /\ h.cause = "stable"
    /\ h.chunks = <<"a", " ">> /\ h.unchanged = 6 /\ ~findResponse

\* C4: while the in-page poller runs, lastTextLength never decreases from one
\* step to the next, whatever texts are observed.
C4_LastTextLengthMonotone ==
    [][(fn = "streamResponse" /\ findResponse) => lastTextLength' >= lastTextLength]_vars

\* C4 witness: the poller still runs after a tick observed a text that does
\* not extend the one before, and the reply now shows less than was emitted.
C4_Witness ==
    /\ fn = "streamResponse" /\ findResponse /\ ~h.onlyGrew
    /\ replyAt # 0 /\ Len(candidates(doc)) > initialCount
    /\ Len(doc[replyAt].text) < lastTextLength

\* C5: once the in-page poller has stopped, onResponseComplete was issued
\* exactly once and onFinalMarkdown at most once, the final render ran at most
\* once, and exactly once when the turn is over.
C5_TerminalTransitionOnce ==
    (fn = "streamResponse" /\ ~findResponse) =>
        /\ completesIssued = 1
        /\ finalMdsIssued <= 1
        /\ Len(host.out) <= 1
        /\ host.resolved => Len(host.out) = 1

\* C6: a poll tick that finds the elapsed time above the hard ceiling stops
\* polling and forces completion: the in-page poller clears its interval and
\* issues onResponseComplete, the loop of waitForResponseAndRender breaks.
C6_CeilingForcesCompletion ==
    /\ [][(PollTick /\ elapsed > STREAM_CEILING_MS) =>
             (~findResponse' /\ completesIssued' = 1)]_vars
    /\ [][(WaitTick /\ elapsed > WAIT_CEILING_MS) => pc' = "copy"]_vars

\* C7: however the poller of streamResponse stopped, onResponseComplete was issued.
C7_TurnCompleteDelivered ==
    (fn = "streamResponse" /\ ~findResponse) => completesIssued >= 1

\* C8: once the abort flag is set, waitForResponseAndRender takes no further
\* step: the loop does not go on to extraction, no copy action or DOM walk
\* sets the final text, and nothing is rendered.
C8_AbortStopsWithoutExtraction ==
    [][abortRequested => (pc' = pc /\ finalText' = finalText /\ rendered' = rendered)]_vars

\* C8 witness: the interrupt arrived while the loop was polling a reply whose
\* text it had already seen; nothing was extracted or rendered.
C8_Witness ==
    /\ abortRequested /\ pc = "poll" /\ lastLength > 0
    /\ finalText = Null /\ rendered = <<>>

\* C9: a tick that finds a candidate beyond the baseline whose container holds
\* the completion marker completes on that tick, whatever the stability counter
\* and the text: the in-page poller stops and issues onFinalMarkdown and
\* onResponseComplete, the loop of waitForResponseAndRender breaks.
C9_MarkerCompletesAtOnce ==
    /\ [][(PollTick /\ Len(candidates(doc)) > initialCount
                    /\ doc[latestCandidate(doc)].scoped
                    /\ doc[latestCandidate(doc)].marker) =>
             (~findResponse' /\ evalResolved' /\ completesIssued' = 1
                /\ finalMdsIssued' = 1)]_vars
    /\ [][(WaitTick /\ ~abortRequested /\ Len(candidates(doc)) > initialCount
                    /\ doc[latestCandidate(doc)].scoped
                    /\ doc[latestCandidate(doc)].copy) => pc' = "copy"]_vars

\* C9 witness: the marker ended the in-page poll on a tick with an empty text
\* and a stability counter of 0.
C9_Witness ==
    /\ fn = "streamResponse" /\ h.cause = "marker" /\ ~findResponse
    /\ stableCount = 0 /\ lastTextLength = 0 /\ h.observed = <<>>

\* C10: once one element was added after the baseline count and none was
\* removed, the candidates outnumber the baseline and the latest candidate is
\* the new element, inside a container or not.
C10_NewReplyDiscovered ==
    (h.added /\ ~h.removed) =>
        (Len(candidates(doc)) > initialCount /\ latestCandidate(doc) = Len(doc))

\* C11: in both pollers the stability counter is 0 after every tick that
\* compared a length greater than the last observed length (in
\* waitForResponseAndRender a tick that sees the copy button leaves the loop,
\* and the scope of its counter, before the comparison); in the in-page poller
\* the counter never exceeds the number of ticks since the latest growth.
C11_GrowthResetsStability ==
    /\ [][(PollTick /\ Len(candidates(doc)) > initialCount
                    /\ Len(doc[latestCandidate(doc)].text) > lastTextLength) =>
             stableCount' = 0]_vars
    /\ [][(WaitTick /\ ~abortRequested /\ Len(candidates(doc)) > initialCount
                    /\ ~(doc[latestCandidate(doc)].scoped /\ doc[latestCandidate(doc)].copy)
                    /\ Len(doc[latestCandidate(doc)].text) > lastLength) =>
             stableCount' = 0]_vars
    /\ []((fn = "streamResponse" /\ h.onlyGrew /\ h.observed # Null) =>
             stableCount <= h.unchanged)

\* C11 witness: the text grew after unchanged ticks had been counted, the
\* counter is back at 0 and the poller still runs.
C11_Witness ==
    /\ h.regrew /\ stableCount = 0 /\ Polling
    /\ (IF fn = "streamResponse" THEN lastTextLength ELSE lastLength) = 2

\* The extraction of waitForResponseAndRender has selected its text.
Selected == fn = "waitForResponseAndRender" /\ pc \in {"render", "returned"}

C13_FinalTextNormalized ==
    (finalRenders # <<>> /\ h.raw # Null) =>
        finalRenders[Len(finalRenders)] = normalizeMarkdown(h.raw)

\* C14: when fetchCopyMarkdown has returned null (no copy button, nothing
\* captured, or a page error that it caught), waitForResponseAndRender goes on
\* to fetchDomMarkdown, takes what it returns as the final text, and renders
\* that text once: the failure ends neither the turn nor the selection.
C14_CopyFailureFallsThrough ==
    (fn = "waitForResponseAndRender" /\ h.copied = Null
        /\ pc \in {"dom", "domIfAny", "render", "returned"}) =>
        /\ pc # "domIfAny"
        /\ pc \in {"render", "returned"} => (h.dom # Null /\ finalText = h.dom)
        /\ pc = "returned" => rendered = <<normalizeMarkdown(h.dom)>>

\* C14 witness: the reply's container shows its copy button, the copy action
\* captured nothing, and the walker's text "a" was rendered.
C14_Witness ==
    /\ fn = "waitForResponseAndRender" /\ pc = "returned" /\ h.copied = Null
    /\ replyAt # 0 /\ doc[replyAt].scoped /\ doc[replyAt].copy
    /\ h.dom = <<"a">> /\ rendered = << <<"a">> >>

\* C15: in a turn of sendPromptToGemini (part_000) the process ends only by
\* the user's interrupt: no error raised by the page ends it.
C15_PageErrorsSurvived ==
    (fn = "waitForResponseAndRender" /\ exited) => abortRequested

\* The length of the reply text that the poller of the turn has observed.
observedLength == IF fn = "streamResponse" THEN lastTextLength ELSE lastLength

\* C17: responses are streamed: the reply text a poll tick has observed has
\* been emitted for the terminal by the end of that tick, so the emitted
\* chunks are never shorter than the text observed so far.
C17_ObservedTextIsStreamed == Len(h.chunks) >= observedLength

\* C16: at most one call of sendPromptToGemini is in flight.
C16_OneTurnInFlight == Len(chat.active) <= 1

\* C18: normalizeMarkdown is idempotent: applied to its own result it returns
\* that result.
C18_NormalizeIdempotent == nm.again # Null => nm.again = nm.out

\* C19: for a 2-column pipe table with one data row split across two raw
\* lines, the result has a line that is exactly that row: its first raw line,
\* a space, and its second raw line, not joined to the separator or to
\* another row.
C19_WrappedRowMerged ==
    (nm.out # Null /\ nm.wrapAt > 0) =>
        LET merged   == nm.lines[nm.wrapAt] \o <<" ">> \o Trim(nm.lines[nm.wrapAt + 1])
            outLines == SplitLines(nm.out)
        IN  \E i \in 1..Len(outLines) : outLines[i] = merged

\* The positions of the lines of ls that satisfy F.
PositionsOf(ls, F(_)) == SelectSeq([i \in 1..Len(ls) |-> i], LAMBDA i : F(ls[i]))

\* For every block of ls that a line satisfying F opens (the first, third, ...
\* such line) and the next such line closes: the opening line and the lines
\* between the two are consecutive lines of outLines, unchanged, and the line
\* after them begins with the closing line.
BlocksKept(ls, outLines, F(_)) ==
    LET fp == PositionsOf(ls, F)
    IN  \A k \in 1..(Len(fp) \div 2) :
          LET o == fp[2 * k - 1]
              c == fp[2 * k]
          IN  \E p \in 1..Len(outLines) :
                /\ p + (c - o) <= Len(outLines)
                /\ \A j \in 0..(c - o - 1) : outLines[p + j] = ls[o + j]
                /\ StartsWith(outLines[p + c - o], ls[c])

\* The line begins with three backticks.
BeginsWithFence(l) == StartsWith(l, <<Backtick, Backtick, Backtick>>)

\* The first characters of the line that are not white space are three backticks.
BeginsWithFenceAfterBlanks(l) == StartsWith(Trim(l), <<Backtick, Backtick, Backtick>>)

\* C20 as stated: for a block opened by a line that starts with three
\* backticks and closed by the next line that starts with three backticks,
\* the lines between them are in the result unchanged, in order, not joined.
C20_FenceKeptBetweenBacktickLines ==
    nm.out # Null => BlocksKept(nm.lines, SplitLines(nm.out), BeginsWithFence)

\* C20 amended: the same for blocks opened and closed by lines whose first
\* characters after leading white space are three backticks.
C20_FenceKeptBetweenFenceLines ==
    nm.out # Null => BlocksKept(nm.lines, SplitLines(nm.out), BeginsWithFenceAfterBlanks)

\* C20 witness: a block opened by an indented fence, holding a line with
\* trailing and a line with leading white space, came out unchanged.
C20_Witness ==
    /\ nm.lines = <<<<" ", Backtick, Backtick, Backtick>>, <<"a", " ">>, <<" ", "b">>,
                    <<Backtick, Backtick, Backtick>>>>
    /\ nm.out = nm.input

\* C22: at no point of the scan of normalizeMarkdown are fence mode and table
\* mode both active.
C22_ModesExclusive ==
    \A i \in 1..Len(nm.scan) : ~(nm.scan[i].inFence /\ nm.scan[i].inTable)

\* The scan state in which line i of the text is read.
scanBefore(i) == IF i = 1 THEN normalizeStart ELSE nm.scan[i - 1]

\* Line i is read outside fences and tables, is not blank, is no fence line,
\* no header row of a table and no block start.
IsParagraphLine(i) ==
    /\ ~scanBefore(i).inFence /\ ~scanBefore(i).inTable
    /\ ~nm.scan[i].inFence /\ ~nm.scan[i].inTable
    /\ Trim(nm.lines[i]) # <<>>
    /\ ~isBlockStart(nm.lines[i])

\* Line i has to begin a new output line: the output is empty, or its last line
\* is blank, is a block start or ends with two spaces, or the line of the text
\* before line i ends with two spaces.
BeginsNewLine(i) ==
    LET out == scanBefore(i).out
    IN  \/ out = <<>>
        \/ Trim(out[Len(out)]) = <<>>
        \/ isBlockStart(out[Len(out)])
        \/ EndsWith(out[Len(out)], <<" ", " ">>)
        \/ i > 1 /\ EndsWith(nm.lines[i - 1], <<" ", " ">>)

\* C23: outside fences and tables a non-blank line that is no block start
\* becomes a new output line when the output is empty or the previous line is
\* blank, a block start or ends with two spaces (a hard break); otherwise it
\* is appended to the previous output line after one space.
C23_SoftWrapRule ==
    \A i \in 1..Len(nm.scan) :
        IsParagraphLine(i) =>
            LET before == scanBefore(i).out
                after  == nm.scan[i].out
            IN  IF BeginsNewLine(i)
                  THEN Len(after) = Len(before) + 1
                  ELSE after = [before EXCEPT
                                  ![Len(before)] = @ \o <<" ">> \o Trim(nm.lines[i])]

\* The lines of ls are consecutive lines of outLines, unchanged and in order,
\* with a line before the first and a line after the last.
LinesEnclosed(ls, outLines) ==
    \E p \in 1..Len(outLines) :
        /\ p + Len(ls) + 1 <= Len(outLines)
        /\ \A j \in 1..Len(ls) : outLines[p + j] = ls[j]

\* The lines of the code text of the walked element (the final line break
\* of the text ends its last line).
walkedCodeLines ==
    SplitLines(IF walk.code # <<>> /\ walk.code[Len(walk.code)] = "\n"
                 THEN SubSeq(walk.code, 1, Len(walk.code) - 1) ELSE walk.code)

\* The walked element is a code block whose code element is found.
IsFencedCode == walk.family = "code" /\ walk.kind \in {"pre code", "code-block"}

\* C21: when the code of a code block has a line starting with three backticks
\* (so the walker fences it with four or more), every line of the code is a
\* line of the normalised walker output, unchanged and not joined.
C21_LongFenceKept ==
    LET codeLines == walkedCodeLines
    IN  (walk.out # Null /\ IsFencedCode
           /\ \E i \in 1..Len(codeLines) : BeginsWithFence(codeLines[i])) =>
            LinesEnclosed(codeLines, SplitLines(walk.out))

\* text has n backticks in a row.
HasBacktickRun(text, n) ==
    \E p \in 1..(Len(text) - n + 1) : \A j \in 0..(n - 1) : text[p + j] = Backtick

\* C24: a pre element that holds its code text directly (no code element, no
\* language label) is walked to a fence of three backticks without language
\* tag, the text (without its final line break), and the closing fence.
C24_PreTextFenced ==
    LET fence == <<Backtick, Backtick, Backtick>>
    IN  (walk.md # Null /\ walk.family = "code" /\ walk.kind = "pre" /\ walk.shape = <<>>
           /\ ~HasBacktickRun(walk.code, 3)) =>
            walk.md = fence \o <<"\n">> \o JoinLines(walkedCodeLines) \o <<"\n">> \o fence

\* The lines of the walker's output that are not empty.
walkedLines == SelectSeq(SplitLines(walk.md), LAMBDA l : l # <<>>)

\* The position, among those lines, of the line of item i of the walked list:
\* after the lines of the items before it and of the lists nested in them.
RECURSIVE itemLine(_)
itemLine(i) == IF i = 1 THEN 1 ELSE itemLine(i - 1) + 1 + walk.shape[i - 1].count

\* C25: the k-th item of an ordered list is written with marker "k.", however
\* many items the lists nested in earlier items have, and the j-th item of a
\* nested ordered list with marker "j." (each nested list starts at 1 again).
C25_OrderedMarkersCount ==
    (walk.md # Null /\ walk.family = "list") =>
        LET lines == walkedLines
        IN  \A k \in 1..Len(walk.shape) :
              /\ itemLine(k) + walk.shape[k].count <= Len(lines)
              /\ walk.kind = "ol" =>
                    lines[itemLine(k)] = numberToString(k) \o <<".", " ", "a">>
              /\ walk.shape[k].type = "ol" =>
                    \A j \in 1..walk.shape[k].count :
                        lines[itemLine(k) + j] =
                            <<" ", " ">> \o numberToString(j) \o <<".", " ", "b">>

\* C25 witness: an ordered list of two items whose first item holds an ordered
\* list of two items has been walked; the second item is numbered 2.
C25_Witness ==
    /\ walk.family = "list" /\ walk.kind = "ol"
    /\ walk.shape = <<[type |-> "ol", count |-> 2], [type |-> "none", count |-> 0]>>
    /\ walk.md # Null
    /\ walkedLines = <<<<"1", ".", " ", "a">>, <<" ", " ", "1", ".", " ", "b">>,
                       <<" ", " ", "2", ".", " ", "b">>, <<"2", ".", " ", "a">>>>

\* The rows of the body of the walked table that have cells.
bodyRowsWithCells == SelectSeq(walk.shape.rows, LAMBDA r : r.cells > 0)

\* C26: a table with a head section is walked to the header row taken from
\* the head, the separator, and one row for each body row, so that the header
\* row is written once; a table without head section to its first row as
\* header, the separator, and one row for each row after the first.
C26_HeaderOnceThenBody ==
    (walk.md # Null /\ walk.md # <<>> /\ walk.family = "table") =>
        LET lines  == SplitLines(walk.md)
            header == <<"|", " ", "c">>
        IN  IF walk.kind = "thead"
              THEN /\ Len(lines) = 2 + Len(bodyRowsWithCells)
                   /\ StartsWith(lines[1], header)
                   /\ \A i \in 2..Len(lines) : ~StartsWith(lines[i], header)
              ELSE Len(lines) = 2 + (Len(bodyRowsWithCells) - 1)

\* The largest number of cells of a row of the walked table (the row of the
\* head section is one of its rows).
widestRow ==
    LET widths == {walk.shape.rows[i].cells : i \in 1..Len(walk.shape.rows)}
                  \cup (IF walk.kind = "thead" THEN {walk.shape.head} ELSE {})
    IN  CHOOSE n \in widths : \A m \in widths : m <= n

\* C27: every row the walker writes for a table (header, separator, body
\* rows) has as many cells as the widest row of the table: it starts and ends
\* with a pipe and holds one more unescaped pipe than that number, also when
\* cell texts contain pipes (a pipe is unescaped when no backslash precedes it).
C27_TableRectangular ==
    (walk.md # Null /\ walk.md # <<>> /\ walk.family = "table") =>
        LET lines == SplitLines(walk.md)
        IN  /\ Len(lines) >= 2
            /\ \A i \in 1..Len(lines) :
                  /\ StartsWith(lines[i], <<"|", " ">>)
                  /\ EndsWith(lines[i], <<" ", "|">>)
                  /\ countPipes(lines[i]) = widestRow + 1

\* C27 witness: a table whose head has one cell and whose body has a row of
\* two cells with a pipe in their text and a row of one cell has been walked.
C27_Witness ==
    /\ walk.family = "table" /\ walk.kind = "thead" /\ walk.shape.head = 1
    /\ walk.shape.rows = <<[cells |-> 2, text |-> <<"a", "|", "b">>],
                           [cells |-> 1, text |-> <<"a">>]>>
    /\ walk.md # Null /\ Len(SplitLines(walk.md)) = 5

\* C28: for adjacent and nested block constructs the walker's output never
\* holds more than two line breaks in a row (one blank line).
C28_OneBlankLineBetweenBlocks ==
    (walk.md # Null /\ walk.family = "blocks") =>
        \A p \in 1..(Len(walk.md) - 2) :
            ~(walk.md[p] = "\n" /\ walk.md[p + 1] = "\n" /\ walk.md[p + 2] = "\n")

\* A run of n backticks is the shortest, of at least least backticks, that is
\* longer than every run of backticks in text: n = max(least, L + 1).
IsFenceLength(n, text, least) ==
    /\ n >= least
    /\ ~HasBacktickRun(text, n)
    /\ n = least \/ HasBacktickRun(text, n - 1)

\* The walker's output is block, or ends with block on a line of its own.
WalkedEndsWithBlock(block) == walk.md = block \/ EndsWith(walk.md, <<"\n">> \o block)

\* C29: the fence of a code block is a run of max(3, L + 1) backticks and the
\* run around inline code one of max(1, L + 1), L being the longest run of
\* backticks in the enclosed text, which therefore holds no run as long as
\* its fence: the output ends with the fence, the language tag if any, the
\* text between line breaks, and the fence again (inline: fence, text, fence).
C29_FenceOneLongerThanRuns ==
    LET code == JoinLines(walkedCodeLines)
        tag  == IF walk.kind = "code-block" THEN <<" ", "a", "b">> ELSE <<>>
    IN  /\ (walk.md # Null /\ IsFencedCode) =>
              \E n \in 1..(Len(code) + 3) :
                  /\ IsFenceLength(n, code, 3)
                  /\ WalkedEndsWithBlock(Repeat(<<Backtick>>, n) \o tag \o <<"\n">> \o code
                                         \o <<"\n">> \o Repeat(<<Backtick>>, n))
        /\ (walk.md # Null /\ walk.family = "code" /\ walk.kind = "inline") =>
              \E n \in 1..(Len(walk.code) + 1) :
                  /\ IsFenceLength(n, walk.code, 1)
                  /\ WalkedEndsWithBlock(Repeat(<<Backtick>>, n) \o walk.code
                                         \o Repeat(<<Backtick>>, n))

\* C29 witness: a code block whose code holds a run of three backticks and a
\* run of one has been walked and is fenced with four.
C29_Witness ==
    /\ walk.family = "code" /\ walk.kind = "pre code" /\ walk.shape = <<>>
    /\ walk.code = <<Backtick, Backtick, Backtick, "\n", Backtick>>
    /\ walk.md # Null
    /\ StartsWith(walk.md, <<Backtick, Backtick, Backtick, Backtick, "\n">>)

\* C30: in streamResponse the lengths of the chunks emitted so far add up to
\* lastTextLength after every tick, and while every observed text extends the
\* one observed before, the chunks put together are the text observed last.
C30_ChunksAddUpToLastLength ==
    fn = "streamResponse" =>
        /\ Len(h.chunks) = lastTextLength
        /\ (h.onlyGrew /\ h.observed # Null) => h.chunks = h.observed

\* C30 witness: the poller emitted "a", saw the text unchanged, then saw it
\* grow to "a " and emitted the new suffix; it is still polling.
C30_Witness ==
    /\ fn = "streamResponse" /\ findResponse /\ h.onlyGrew /\ h.regrew
    /\ h.chunks = <<"a", " ">> /\ h.observed = <<"a", " ">> /\ lastTextLength = 2

\* C32: in the loop of waitForResponseAndRender lastLength never decreases
\* from one iteration to the next.
C32_LastLengthMonotone ==
    [][WaitTick => lastLength' >= lastLength]_vars

\* The length a tick that runs now observes: that of the latest candidate's
\* text, 0 when there is no candidate beyond the baseline.
TickLength == pollState(doc, initialCount).textLength

\* C31: a poller that completes by the stability threshold (not by the marker,
\* not by the ceiling) counted consecutive ticks only: a tick that observes
\* another length than the one tracked (a shorter text, a zero length, no
\* candidate) and goes on polling leaves no earlier unchanged tick counted.
C31_StabilityCountsConsecutiveTicks ==
    [][(\/ PollTick /\ findResponse' /\ TickLength # lastTextLength
        \/ WaitTick /\ pc' = "poll" /\ TickLength # lastLength)
       => stableCount' = 0]_vars

\* The place of a call in the order of a turn.
CallRank(c) ==
    CASE c.type = "onNewChunk" -> 1
      [] c.type = "onFinalMarkdown" -> 2
      [] OTHER -> 3

\* C33: the in-page poller of streamResponse issues its calls in order: every
\* onNewChunk before onFinalMarkdown, and that before the one
\* onResponseComplete. A tick issues the new suffix first, then the final
\* Markdown, then the completion; a final Markdown is followed by the
\* completion at once; the tick that signals completion is the last one, so
\* that no onNewChunk or onFinalMarkdown follows it.
C33_CallbackOrder ==
    [][/\ PollTick =>
            /\ \A i, j \in 1..Len(calls') :
                   i < j => CallRank(calls'[i]) < CallRank(calls'[j])
            /\ \A i \in 1..Len(calls') :
                   /\ calls'[i].type = "onFinalMarkdown" =>
                          i < Len(calls') /\ calls'[i + 1].type = "onResponseComplete"
                   /\ calls'[i].type = "onResponseComplete" => ~findResponse'
       /\ ~findResponse => ~findResponse']_vars

\* C33 witness: the tick that ended the poll saw the text grow, and its three
\* calls are on their way to the host: the suffix, the final Markdown, the
\* completion.
C33_Witness ==
    /\ fn = "streamResponse" /\ ~findResponse /\ Len(calls) = 3
    /\ calls[1].type = "onNewChunk" /\ calls[1].arg # <<>>
    /\ calls[2].type = "onFinalMarkdown"
    /\ calls[3].type = "onResponseComplete"

\* The characters of the onNewChunk calls on their way to the host, in order.
ChunksInFlight ==
    LET f[i \in 0..Len(calls)] ==
            IF i = 0 THEN <<>>
            ELSE f[i - 1] \o (IF calls[i].type = "onNewChunk" THEN calls[i].arg ELSE <<>>)
    IN  f[Len(calls)]

\* C34: the characters that onNewChunk delivered are, in the order of
\* delivery, those written to the terminal followed by those in charQueue: none
\* is lost, doubled or overtaken; and the final render starts only with an
\* empty charQueue, which stays empty from then on.
C34_TypingQueueFifo ==
    fn = "streamResponse" =>
        /\ host.streamedText \o host.charQueue \o ChunksInFlight = h.chunks
        /\ (host.finalizeStarted \/ host.resolved) =>
               host.charQueue = <<>> /\ host.streamedText = h.chunks

\* C34 witness: two characters were delivered, both were typed in the order
\* of delivery, and the final render has started.
C34_Witness ==
    /\ fn = "streamResponse" /\ (host.finalizeStarted \/ host.resolved)
    /\ h.chunks = <<"a", " ">> /\ host.streamedText = <<"a", " ">>

\* C35: one typing chain. Between two callbacks isTyping is false only with
\* an empty charQueue, isTyping is true exactly while one timer of
\* typeNextChar is pending, and there is never a second one; once completion
\* was signalled and the chain is idle, finishing has begun.
C35_SingleTypingChain ==
    fn = "streamResponse" =>
        /\ ~host.isTyping => host.charQueue = <<>>
        /\ host.pendingTimeouts <= 1
        /\ host.isTyping <=> host.pendingTimeouts = 1
        /\ (host.responseCompleteTriggered /\ ~host.isTyping) =>
               (host.finalizeStarted \/ host.resolved)

\* C35 witness: one character is typed, one waits in charQueue, one timer is
\* pending.
C35_Witness ==
    /\ fn = "streamResponse" /\ host.isTyping /\ host.pendingTimeouts = 1
    /\ host.streamedText = <<"a">> /\ host.charQueue = <<" ">>


\* C36: no timer that waitForResponseAndRender started outlives it: once it
\* has returned or thrown, the keep-alive interval and the status animation
\* are stopped and activeStopTyping is cleared.
C36_NoTimerOutlivesWait ==
    (fn = "waitForResponseAndRender" /\ pc \in {"returned", "threw"}) =>
        ~timers.keepAlive /\ ~timers.status /\ ~timers.activeStopTyping


\* C38: the two extraction paths agree: the final text that
\* waitForResponseAndRender renders is the one finalizeResponse selects from
\* the same copy result and the same walker result, also for a copy text that
\* is not blank, does not look like Markdown, and comes with a walker output
\* that is not blank. (Where the walker was not asked, the copy text is not
\* blank and finalizeResponse takes it whatever the walker would return.)
C38_ExtractionPathsAgree ==
    (fn = "waitForResponseAndRender" /\ pc = "returned") =>
        rendered[Len(rendered)]
          = finalizedText(IF h.dom = Null THEN <<>> ELSE h.dom, h.copied)

\* C39: the menu of selectChatFromList over a list that is not empty. The
\* selected index stays within 0..chats.length-1, the up and down arrows move
\* it by one and wrap at both ends; the window start..end that is drawn lies
\* within the list and holds the selected index; the promise is resolved once,
\* by Enter with chats[index] and by Escape or Ctrl-C with null, and a key
\* pressed after that changes nothing.
C39_MenuSelection ==
    [][(menu'.called /\ menu'.isTTY) =>
          /\ menu'.index \in 0..(menu'.n - 1)
          /\ 0 <= menu'.start /\ menu'.end <= menu'.n
          /\ menu'.start <= menu'.index /\ menu'.index < menu'.end
          /\ menu'.resolves <= 1
          /\ menu'.listening <=> menu'.resolves = 0
          /\ menu'.keys = menu.keys + 1 =>
                IF menu.resolves > 0
                  THEN menu' = [menu EXCEPT !.keys = @ + 1, !.key = menu'.key]
                  ELSE CASE menu'.key = "up" ->
                              /\ menu'.index = IF menu.index = 0 THEN menu.n - 1
                                               ELSE menu.index - 1
                              /\ menu'.resolves = 0
                         [] menu'.key = "down" ->
                              /\ menu'.index = IF menu.index = menu.n - 1 THEN 0
                                               ELSE menu.index + 1
                              /\ menu'.resolves = 0
                         [] menu'.key = "return" ->
                              menu'.resolves = 1 /\ menu'.result = menu.index
                         [] menu'.key \in {"escape", "ctrl-c"} ->
                              menu'.resolves = 1 /\ menu'.result = NoChat
                         [] OTHER ->
                              menu' = [menu EXCEPT !.keys = @ + 1, !.key = menu'.key]
      ]_vars

\* C39 witness: in a list of thirteen chats the up arrow wrapped from the
\* first item to the last, the window moved to end with it, Enter resolved
\* the promise with that item, and a down arrow pressed afterwards was not heard.
C39_Witness ==
    /\ menu.n = 13 /\ menu.keys = 3 /\ menu.key = "down"
    /\ menu.index = 12 /\ menu.start = 1 /\ menu.end = 13
    /\ menu.resolves = 1 /\ menu.result = 12 /\ ~menu.listening

\* C37: the copy interception leaves the page as it found it. Once
\* fetchCopyMarkdown has resolved (with or without button, with or without a
\* captured text), no copy listener of its own is left and
\* navigator.clipboard.writeText and document.execCommand do what the
\* browser's own functions do; a call never saves an override of an earlier
\* call as the original, so that calls in sequence do not stack overrides.
C37_CopyLeavesPageAsFound ==
    /\ ~clip.inFlight =>
          /\ clip.listeners = 0
          /\ clip.execCommand = "native"
          /\ clip.hasClipboard => clip.writeText.fn = "native"
    /\ clip.inFlight =>
          /\ clip.listeners = 1
          /\ clip.originalExecCommand = "native"
          /\ clip.hasClipboard => clip.originalWriteText.fn = "native"

\* C37 witness: two calls in sequence on a page with copy button and
\* clipboard API have resolved, the second with a captured text; writeText is
\* the browser's function under the two bindings the calls left.
C37_Witness ==
    /\ clip.calls = 2 /\ ~clip.inFlight /\ clip.hasButton /\ clip.hasClipboard
    /\ clip.result = <<"b">> /\ clip.writeText = Fn("native", 2)

====
